---------------------------- MODULE Spec2Model ----------------------------
(***************************************************************************)
(* Model of the ralfresh persistent-mode state machine                     *)
(* (src/src/hooks/ralfresh/state.ts, src/src/hooks/ralfresh/index.ts,      *)
(* types in src/unnamed/part_003).                                         *)
(*                                                                         *)
(* The state is the content of one working directory: the state document   *)
(* .omc/state/ralfresh-state.json, the sub-mode state files beside it, the *)
(* user-scoped (global) sub-mode files, and the notes store.  Every        *)
(* exported function is one action; the last call and its return value are *)
(* recorded in op and ret.                                                 *)
(***************************************************************************)
EXTENDS Integers, Sequences, FiniteSets, TLC

VARIABLES
    disk,        \* the state document: absent, corrupt, or a RalfreshState
    localFiles,  \* sub-mode state files present in <dir>/.omc/state
    globalFiles, \* sub-mode state files in ~/.claude: file -> content
    notes,       \* the notes store: notepad name -> [learnings, issues]
    now,         \* the wall clock read by new Date()
    returns,     \* how often this instance went back from assess to planning
    op,          \* the last call: its name, arguments, and what it did to
                 \* the state file (io)
    ret,         \* what the last call returned
    tmpFile,     \* the temp file ralfresh-state.json.tmp, followed only
                 \* where a write is taken step by step (CrashSpec)
    writer       \* the position of a write taken step by step, with the
                 \* document before it and the state it is writing

vars == <<disk, localFiles, globalFiles, notes, now, returns, op, ret,
          tmpFile, writer>>

---------------------------------------------------------------------------
(* Bounds of the model *)

\* Largest value of the clock.
MaxClock == 1
\* Most entries the model keeps in the logs of the state document, and in
\* the notes store.
MaxEntries == 1
\* Most sub-mode state files (local and global together) the environment
\* keeps in existence at a time.
MaxSubFiles == 1
\* Most sub-mode state files (local and global together) in existence when
\* the reaper is called on its own (PurgeSpec).
MaxPurgeFiles == 2
\* Most staleness periods the clock of GuardSpec runs through.
MaxHours == 1
\* Most addLearning / addIssue calls the sessions of RaceSpec complete.
MaxRaceWrites == 2
\* Number of notification platforms the configurations of NotifySpec range
\* over, of the five there are.
MaxPlatforms == 2
\* Value at which the counter of assess -> planning returns saturates.
MaxReturns == 1
\* Largest iteration number the model increments to.
MaxIteration == 2

---------------------------------------------------------------------------
(* Program constants (src/unnamed/part_003) *)

MAX_LEARNINGS == 100
MAX_ISSUES == 100
MAX_ENTRY_LENGTH == 4096
MAX_PROMPT_LENGTH == 32768
\* initRalfresh: config?.maxIterations ?? 5
DEFAULT_MAX_ITERATIONS == 5
\* STALE_STATE_MAX_AGE_MS: maximum age (ms) of a resumable state, 1 hour
\* (dist/hooks/autopilot/cancel.d.ts).
STALE_STATE_MAX_AGE_MS == 3600000

---------------------------------------------------------------------------
(* Strings.  A string is kept run-length encoded: a sequence of runs       *)
(* [c, n] (character c repeated n > 0 times), adjacent runs of different   *)
(* characters.  length, slice(0, k) and + are computed on that form.       *)

Repeat(c, n) == IF n <= 0 THEN <<>> ELSE <<[c |-> c, n |-> n]>>

RECURSIVE StrLen(_)
StrLen(s) == IF s = <<>> THEN 0 ELSE Head(s).n + StrLen(Tail(s))

\* s.slice(0, k)
RECURSIVE StrTake(_, _)
StrTake(s, k) ==
    IF k <= 0 \/ s = <<>> THEN <<>>
    ELSE IF Head(s).n >= k THEN <<[c |-> Head(s).c, n |-> k]>>
    ELSE <<Head(s)>> \o StrTake(Tail(s), k - Head(s).n)

\* s + t
StrCat(s, t) ==
    IF s = <<>> THEN t
    ELSE IF t = <<>> THEN s
    ELSE IF s[Len(s)].c = Head(t).c
         THEN SubSeq(s, 1, Len(s) - 1)
              \o <<[c |-> Head(t).c, n |-> s[Len(s)].n + Head(t).n]>>
              \o Tail(t)
    ELSE s \o t

\* the truncation marker '...'
Ellipsis == Repeat(".", 3)

---------------------------------------------------------------------------
(* Types (src/unnamed/part_003) *)

\* RalfreshPhase
RalfreshPhase == {"planning", "execution", "review", "assess", "complete", "failed"}

\* A timestamp field that is absent (undefined) or null.
NoTime == -1

\* sessionId?: string -- undefined when the caller passes none.
NoSession == "undefined"
SessionIds == {"s1", "s2"}

\* { status: 'pending' }
PendingPhase == [status |-> "pending", startedAt |-> NoTime, completedAt |-> NoTime]

\* createInitialPhases()
createInitialPhases == [p \in RalfreshPhase |-> PendingPhase]

\* state.phase === 'complete' || state.phase === 'failed'
IsTerminal(p) == p = "complete" \/ p = "failed"

---------------------------------------------------------------------------
(* The state document *)

Absent == [kind |-> "absent"]
Corrupt == [kind |-> "corrupt"]
Stored(s) == [kind |-> "state", state |-> s]

\* JSON values.  typeof gives 'object' for null, arrays and objects alike.
JUndefined == [t |-> "undefined"]
JNull == [t |-> "null"]
JBool(b) == [t |-> "boolean", v |-> b]
JNum(n) == [t |-> "number", v |-> n]
JStr(s) == [t |-> "string", v |-> s]
JArr(a) == [t |-> "array", v |-> a]
JObj(o) == [t |-> "object", v |-> o]

\* typeof v
TypeOf(v) == IF v.t \in {"null", "array", "object"} THEN "object" ELSE v.t

\* obj.k: undefined when obj has no such property.
Field(obj, k) ==
    IF obj.t = "object" /\ k \in DOMAIN obj.v THEN obj.v[k] ELSE JUndefined

\* The text of a file: one that JSON.parse rejects, or the text of a value.
Unparseable == [json |-> FALSE]
Text(value) == [json |-> TRUE, value |-> value]

\* JSON.stringify of a phase record: a property that is undefined is left
\* out.
stringifyPhase(ph) ==
    JObj(IF ph.startedAt = NoTime
         THEN IF ph.completedAt = NoTime
              THEN [status |-> JStr(ph.status)]
              ELSE [status |-> JStr(ph.status),
                    completedAt |-> JStr(ph.completedAt)]
         ELSE IF ph.completedAt = NoTime
              THEN [status |-> JStr(ph.status),
                    startedAt |-> JStr(ph.startedAt)]
              ELSE [status |-> JStr(ph.status),
                    startedAt |-> JStr(ph.startedAt),
                    completedAt |-> JStr(ph.completedAt)])

\* The properties JSON.stringify writes whatever the state: all but
\* sessionId.  completedAt: null is written as null.
StateProperties(state) ==
    [active |-> JBool(state.active),
     iteration |-> JNum(state.iteration),
     maxIterations |-> JNum(state.maxIterations),
     phase |-> JStr(state.phase),
     prompt |-> JStr(state.prompt),
     startedAt |-> JStr(state.startedAt),
     completedAt |-> IF state.completedAt = NoTime THEN JNull
                     ELSE JStr(state.completedAt),
     notepadName |-> JStr(state.notepadName),
     phases |-> JObj([p \in DOMAIN state.phases |->
                         stringifyPhase(state.phases[p])]),
     learnings |-> JArr([i \in DOMAIN state.learnings |->
                            JStr(state.learnings[i])]),
     issues |-> JArr([i \in DOMAIN state.issues |-> JStr(state.issues[i])]),
     linkedModes |-> JObj([m \in state.linkedModes |-> JBool(TRUE)])]

\* A variant of the serialisation that never writes sessionId.
stringify_dropsSessionId(state) == JObj(StateProperties(state))

\* JSON.stringify(state, null, 2) (state.ts 105): sessionId is left out
\* when it is undefined.
stringify(state) ==
    JObj(IF state.sessionId = NoSession THEN StateProperties(state)
         ELSE ("sessionId" :> JStr(state.sessionId)) @@ StateProperties(state))

\* isValidRalfreshState(obj) (state.ts 43-59).
isValidRalfreshState(obj) ==
    /\ TypeOf(obj) = "object" /\ obj # JNull
    /\ TypeOf(Field(obj, "active")) = "boolean"
    /\ TypeOf(Field(obj, "iteration")) = "number"
    /\ TypeOf(Field(obj, "maxIterations")) = "number"
    /\ TypeOf(Field(obj, "phase")) = "string"
    /\ TypeOf(Field(obj, "prompt")) = "string"
    /\ TypeOf(Field(obj, "startedAt")) = "string"
    /\ TypeOf(Field(obj, "notepadName")) = "string"
    /\ TypeOf(Field(obj, "phases")) = "object"
    /\ Field(obj, "learnings").t = "array"
    /\ Field(obj, "issues").t = "array"

\* A timestamp property read from a parsed value: absent and null read as
\* no time.
TimeOf(v) == IF v.t \in {"undefined", "null"} THEN NoTime ELSE v.v

\* A parsed phase record seen as a RalfreshPhaseState.
parsedPhase(v) ==
    [status |-> v.v.status.v,
     startedAt |-> TimeOf(Field(v, "startedAt")),
     completedAt |-> TimeOf(Field(v, "completedAt"))]

\* The parsed value seen as a RalfreshState (`return parsed`, state.ts 79),
\* for a value that passed the validation: the properties the value has,
\* read as the fields of the state.  A phases property that is not a record
\* of phases is what it is.
parsedState(obj) ==
    LET o == obj.v
    IN  [active |-> o.active.v,
         iteration |-> o.iteration.v,
         maxIterations |-> o.maxIterations.v,
         phase |-> o.phase.v,
         prompt |-> o.prompt.v,
         startedAt |-> o.startedAt.v,
         completedAt |-> TimeOf(Field(obj, "completedAt")),
         sessionId |-> IF "sessionId" \in DOMAIN o THEN o.sessionId.v
                       ELSE NoSession,
         notepadName |-> o.notepadName.v,
         phases |-> IF o.phases.t = "object"
                    THEN [p \in DOMAIN o.phases.v |-> parsedPhase(o.phases.v[p])]
                    ELSE o.phases,
         learnings |-> [i \in DOMAIN o.learnings.v |-> o.learnings.v[i].v],
         issues |-> [i \in DOMAIN o.issues.v |-> o.issues.v[i].v],
         linkedModes |-> DOMAIN Field(obj, "linkedModes").v]

\* A state file with the given text, as readRalfreshState sees it
\* (state.ts 72-84): JSON.parse throws or the validation fails, and the
\* read gives null; otherwise it gives the parsed value.
StateFile(text) ==
    IF text.json /\ isValidRalfreshState(text.value)
    THEN Stored(parsedState(text.value))
    ELSE Corrupt

\* existsSync(stateFile)
Exists(d) == d.kind # "absent"

\* readRalfreshState returned a state (not null): the file exists, parses
\* and passes isValidRalfreshState.
Readable(d) == d.kind = "state"

\* readRalfreshState(directory); only used where Readable(d).
readRalfreshState(d) == d.state

\* writeRalfreshState step by step.  writeFileSync(tempFile, ...) (state.ts
\* 105): the temp file holds the whole document when the call completes,
\* and a torn one when the process dies inside it.
writeTempFile_inPlace(d, tmp, s, complete) ==
    [disk |-> IF complete THEN StateFile(Text(stringify(s))) ELSE Corrupt,
     tmp |-> tmp]

writeTempFile(d, tmp, s, complete) ==
    [disk |-> d,
     tmp |-> IF complete THEN StateFile(Text(stringify(s))) ELSE Corrupt]

\* renameSync(tempFile, stateFile) (state.ts 108): the state file becomes
\* the temp file in one step; without a temp file the call throws.
renameTempFile(d, tmp) ==
    IF Exists(tmp) THEN [disk |-> tmp, tmp |-> Absent, ok |-> TRUE]
    ELSE [disk |-> d, tmp |-> tmp, ok |-> FALSE]

\* No write is under way.
Idle == [pc |-> "idle"]

\* A variant of writeRalfreshState that writes the state file in place: a
\* failed write leaves a file that does not parse.
writeRalfreshState_inPlace(d, s, ok) ==
    IF ok THEN StateFile(Text(stringify(s))) ELSE Corrupt

\* writeRalfreshState: temp file + rename; ok is whether both succeeded.
\* On failure the state file is what it was.
writeRalfreshState(d, s, ok) ==
    IF ok THEN StateFile(Text(stringify(s))) ELSE d

\* clearRalfreshState: unlinkSync(stateFile); ok is whether unlink succeeded.
clearRalfreshState(d, ok) == IF Exists(d) /\ ok THEN Absent ELSE d

\* isRalfreshActive
isRalfreshActive(d) == Readable(d) /\ readRalfreshState(d).active

\* What a call did to the state file: no write or unlink attempted, one
\* that succeeded, one that failed.
Outcome(ok) == IF ok THEN "ok" ELSE "failed"

\* Return values
Null == [kind |-> "null"]
RetState(s) == [kind |-> "state", state |-> s]
RetBool(b) == [kind |-> "bool", value |-> b]

---------------------------------------------------------------------------
(* Sub-mode Reaper: clearAllRalfreshSubModes (state.ts 155-230) *)

\* localFilesToDelete
localFilesToDelete ==
    {"plan-consensus.json", "swarm.db", "swarm.db-wal", "swarm.db-shm",
     "swarm-active.marker", "ultrawork-state.json", "ralph-state.json",
     "ralph-verification.json"}

\* globalFiles (in ~/.claude)
globalFileNames == {"ultrawork-state.json", "ralph-state.json"}

\* Content of a global file: absent, the session id it records, a JSON
\* document recording no session id, or text JSON.parse throws on.
GlobalContents == {"absent", "nosession", "junk"} \cup SessionIds

\* A variant of the ownership test that only asks for a session id.
sessionMatches_anySession(sessionId, content) == sessionId # NoSession

\* const sessionMatches = sessionId &&
\*   (state.session_id === sessionId || state.sessionId === sessionId)
sessionMatches(sessionId, content) ==
    sessionId # NoSession /\ content = sessionId

\* Whether the loop over globalFiles deletes file f: it exists, parses, and
\* force || sessionMatches; unlinkSync does not throw.
GlobalDeleted(g, f, sessionId, force, failGlobal) ==
    /\ g[f] \notin {"absent", "junk"}
    /\ force \/ sessionMatches(sessionId, g[f])
    /\ f \notin failGlobal

\* Whether the loop over globalFiles hits the catch branch on file f.
GlobalFailed(g, f, sessionId, force, failGlobal) ==
    \/ g[f] = "junk"
    \/ /\ g[f] # "absent"
       /\ force \/ sessionMatches(sessionId, g[f])
       /\ f \in failGlobal

\* A variant of the reaper that leaves the local files alone when it is
\* given neither a session id nor force.
clearAllRalfreshSubModes_localsGated(l, g, sessionId, force, home, failLocal, failGlobal) ==
    LET gated == sessionId = NoSession /\ ~force
        localFailed == l \cap localFilesToDelete \cap failLocal
        localLeft == IF gated THEN l
                     ELSE (l \ localFilesToDelete) \cup localFailed
        localOk == gated \/ localFailed = {}
    IN  IF ~home
        THEN [local |-> localLeft, global |-> g, success |-> localOk]
        ELSE [local |-> localLeft,
              global |-> [f \in globalFileNames |->
                            IF GlobalDeleted(g, f, sessionId, force, failGlobal)
                            THEN "absent" ELSE g[f]],
              success |-> localOk /\ \A f \in globalFileNames :
                            ~GlobalFailed(g, f, sessionId, force, failGlobal)]

\* A variant of the reaper that stops at the first unlinkSync that throws.
clearAllRalfreshSubModes_abortsOnFailure(l, g, sessionId, force, home, failLocal, failGlobal) ==
    LET localFailed == l \cap localFilesToDelete \cap failLocal
        localLeft == (l \ localFilesToDelete) \cup localFailed
    IN  IF localFailed # {}
        THEN [local |-> l, global |-> g, success |-> FALSE]
        ELSE IF ~home
        THEN [local |-> localLeft, global |-> g, success |-> TRUE]
        ELSE IF \E f \in globalFileNames :
                    GlobalFailed(g, f, sessionId, force, failGlobal)
        THEN [local |-> localLeft, global |-> g, success |-> FALSE]
        ELSE [local |-> localLeft,
              global |-> [f \in globalFileNames |->
                            IF GlobalDeleted(g, f, sessionId, force, failGlobal)
                            THEN "absent" ELSE g[f]],
              success |-> TRUE]

\* clearAllRalfreshSubModes(directory, sessionId, force).
\* l, g: the local and global files before the call; home: whether HOME or
\* USERPROFILE is set; failLocal, failGlobal: the files unlinkSync throws on.
\* Yields the files after the call and the value returned.
clearAllRalfreshSubModes(l, g, sessionId, force, home, failLocal, failGlobal) ==
    LET localFailed == l \cap localFilesToDelete \cap failLocal
        localLeft == (l \ localFilesToDelete) \cup localFailed
        localOk == localFailed = {}
    IN  IF ~home
        THEN [local |-> localLeft, global |-> g, success |-> localOk]
        ELSE [local |-> localLeft,
              global |-> [f \in globalFileNames |->
                            IF GlobalDeleted(g, f, sessionId, force, failGlobal)
                            THEN "absent" ELSE g[f]],
              success |-> localOk /\ \A f \in globalFileNames :
                            ~GlobalFailed(g, f, sessionId, force, failGlobal)]

---------------------------------------------------------------------------
(* Notes store (features/notepad-wisdom): an external collaborator *)

EmptyNotepad == [learnings |-> <<>>, issues |-> <<>>]

\* initPlanNotepad(name, directory); ok is whether the call took effect.
initPlanNotepad(n, name, ok) ==
    IF ok /\ name \notin DOMAIN n
    THEN [h \in DOMAIN n \cup {name} |-> IF h = name THEN EmptyNotepad ELSE n[h]]
    ELSE n

\* addLearning / addIssue of the notes store: append text to the log.
addNotepadEntry(n, name, log, text, ok) ==
    IF ~ok THEN n
    ELSE LET m == initPlanNotepad(n, name, TRUE)
         IN  [m EXCEPT ![name][log] = Append(@, text)]

\* readPlanWisdom(name, directory); ok is whether the read succeeded.
NoWisdom == [kind |-> "null"]
readPlanWisdom(n, name, ok) ==
    IF ok /\ name \in DOMAIN n
    THEN [kind |-> "wisdom", learnings |-> n[name].learnings,
          issues |-> n[name].issues]
    ELSE NoWisdom

---------------------------------------------------------------------------
(* Phase Graph and Lifecycle Controller (state.ts 251-350, index.ts 71-122) *)

\* VALID_TRANSITIONS
VALID_TRANSITIONS ==
    [planning  |-> {"execution"},
     execution |-> {"review"},
     review    |-> {"assess"},
     assess    |-> {"planning", "complete", "failed"},
     complete  |-> {},
     failed    |-> {}]

\* A variant of the mutation that leaves the record of the phase being left
\* in_progress.
transitionMutation_leavesCurrentOpen(state, newPhase, t) ==
    LET started == [state EXCEPT !.phase = newPhase,
                                 !.phases[newPhase].status = "in_progress",
                                 !.phases[newPhase].startedAt = t]
    IN  IF newPhase = "complete" \/ newPhase = "failed"
        THEN [started EXCEPT !.active = FALSE, !.completedAt = t]
        ELSE started

\* A variant of the mutation without the handling of terminal phases.
transitionMutation_staysActive(state, newPhase, t) ==
    LET done == [state EXCEPT !.phases[state.phase].status = "complete",
                              !.phases[state.phase].completedAt = t]
    IN  [done EXCEPT !.phase = newPhase,
                     !.phases[newPhase].status = "in_progress",
                     !.phases[newPhase].startedAt = t]

\* A variant of the mutation that starts the new phase without a startedAt.
transitionMutation_noStartedAt(state, newPhase, t) ==
    LET done == [state EXCEPT !.phases[state.phase].status = "complete",
                              !.phases[state.phase].completedAt = t]
        started == [done EXCEPT !.phase = newPhase,
                                !.phases[newPhase].status = "in_progress"]
    IN  IF newPhase = "complete" \/ newPhase = "failed"
        THEN [started EXCEPT !.active = FALSE, !.completedAt = t]
        ELSE started

\* The in-memory mutation of transitionRalfreshPhase (state.ts 286-301).
transitionMutation(state, newPhase, t) ==
    LET done == [state EXCEPT !.phases[state.phase].status = "complete",
                              !.phases[state.phase].completedAt = t]
        started == [done EXCEPT !.phase = newPhase,
                                !.phases[newPhase].status = "in_progress",
                                !.phases[newPhase].startedAt = t]
    IN  IF newPhase = "complete" \/ newPhase = "failed"
        THEN [started EXCEPT !.active = FALSE, !.completedAt = t]
        ELSE started

\* A variant of transitionRalfreshPhase without the validation against
\* VALID_TRANSITIONS.
transitionRalfreshPhase_unvalidated(d, newPhase, t, writeOk) ==
    IF ~Readable(d) \/ ~readRalfreshState(d).active
    THEN [disk |-> d, ret |-> Null, io |-> "none"]
    ELSE LET state == transitionMutation(readRalfreshState(d), newPhase, t)
         IN  [disk |-> writeRalfreshState(d, state, writeOk),
              ret |-> IF writeOk THEN RetState(state) ELSE Null,
              io |-> Outcome(writeOk)]

\* transitionRalfreshPhase(directory, newPhase): the document after the call
\* and the value returned.
transitionRalfreshPhase(d, newPhase, t, writeOk) ==
    IF ~Readable(d) \/ ~readRalfreshState(d).active
    THEN [disk |-> d, ret |-> Null, io |-> "none"]
    ELSE IF newPhase \notin VALID_TRANSITIONS[readRalfreshState(d).phase]
    THEN [disk |-> d, ret |-> Null, io |-> "none"]
    ELSE LET state == transitionMutation(readRalfreshState(d), newPhase, t)
         IN  [disk |-> writeRalfreshState(d, state, writeOk),
              ret |-> IF writeOk THEN RetState(state) ELSE Null,
              io |-> Outcome(writeOk)]

\* A variant of the mutation that also empties the logs.
incrementMutation_dropsLogs(state, t) ==
    [state EXCEPT !.iteration = @ + 1,
                  !.phases = [createInitialPhases EXCEPT
                                 !["planning"] = [status |-> "in_progress",
                                                  startedAt |-> t,
                                                  completedAt |-> NoTime]],
                  !.phase = "planning",
                  !.learnings = <<>>,
                  !.issues = <<>>]

\* A variant of the mutation of incrementRalfreshIteration that leaves the
\* instance inactive.
incrementMutation_deactivates(state, t) ==
    [state EXCEPT !.iteration = @ + 1,
                  !.phases = [createInitialPhases EXCEPT
                                 !["planning"] = [status |-> "in_progress",
                                                  startedAt |-> t,
                                                  completedAt |-> NoTime]],
                  !.phase = "planning",
                  !.active = FALSE]

\* The in-memory mutation of incrementRalfreshIteration (state.ts 328-341).
incrementMutation(state, t) ==
    [state EXCEPT !.iteration = @ + 1,
                  !.phases = [createInitialPhases EXCEPT
                                 !["planning"] = [status |-> "in_progress",
                                                  startedAt |-> t,
                                                  completedAt |-> NoTime]],
                  !.phase = "planning"]

\* A variant of the ceiling test that is off by one.
maxIterationsReached_offByOne(state) == state.iteration > state.maxIterations

\* state.iteration >= state.maxIterations
maxIterationsReached(state) == state.iteration >= state.maxIterations

\* A variant of incrementRalfreshIteration without the check of active.
incrementRalfreshIteration_ignoresActive(d, l, g, sessionId, t, writeOk, home, failLocal, failGlobal) ==
    IF ~Readable(d)
    THEN [disk |-> d, local |-> l, global |-> g, ret |-> Null, io |-> "none"]
    ELSE IF maxIterationsReached(readRalfreshState(d))
    THEN LET r == transitionRalfreshPhase(d, "failed", t, writeOk)
         IN  [disk |-> r.disk, local |-> l, global |-> g, ret |-> r.ret,
              io |-> r.io]
    ELSE LET state == incrementMutation(readRalfreshState(d), t)
             c == clearAllRalfreshSubModes(l, g, sessionId, FALSE, home,
                                           failLocal, failGlobal)
         IN  [disk |-> writeRalfreshState(d, state, writeOk),
              local |-> c.local, global |-> c.global,
              ret |-> IF writeOk THEN RetState(state) ELSE Null,
              io |-> Outcome(writeOk)]

\* A variant of incrementRalfreshIteration that does not call the reaper.
incrementRalfreshIteration_keepsSubModes(d, l, g, sessionId, t, writeOk, home, failLocal, failGlobal) ==
    IF ~Readable(d) \/ ~readRalfreshState(d).active
    THEN [disk |-> d, local |-> l, global |-> g, ret |-> Null, io |-> "none"]
    ELSE IF maxIterationsReached(readRalfreshState(d))
    THEN LET r == transitionRalfreshPhase(d, "failed", t, writeOk)
         IN  [disk |-> r.disk, local |-> l, global |-> g, ret |-> r.ret,
              io |-> r.io]
    ELSE LET state == incrementMutation(readRalfreshState(d), t)
         IN  [disk |-> writeRalfreshState(d, state, writeOk),
              local |-> l, global |-> g,
              ret |-> IF writeOk THEN RetState(state) ELSE Null,
              io |-> Outcome(writeOk)]

\* sub-mode files after the call, and the value returned.
incrementRalfreshIteration(d, l, g, sessionId, t, writeOk, home, failLocal, failGlobal) ==
    IF ~Readable(d) \/ ~readRalfreshState(d).active
    THEN [disk |-> d, local |-> l, global |-> g, ret |-> Null, io |-> "none"]
    ELSE IF maxIterationsReached(readRalfreshState(d))
    THEN LET r == transitionRalfreshPhase(d, "failed", t, writeOk)
         IN  [disk |-> r.disk, local |-> l, global |-> g, ret |-> r.ret,
              io |-> r.io]
    ELSE LET state == incrementMutation(readRalfreshState(d), t)
             c == clearAllRalfreshSubModes(l, g, sessionId, FALSE, home,
                                           failLocal, failGlobal)
         IN  [disk |-> writeRalfreshState(d, state, writeOk),
              local |-> c.local, global |-> c.global,
              ret |-> IF writeOk THEN RetState(state) ELSE Null,
              io |-> Outcome(writeOk)]

\* const notepadName = `ralfresh-${timestamp}`: one name per clock value.
notepadNameAt(t) == t

\* A variant of the state built by initRalfresh that ignores skipPlanning.
initialState_alwaysPlanning(prompt, sessionId, config, t) ==
    [active |-> TRUE,
     iteration |-> 1,
     maxIterations |-> IF config.hasMax THEN config.maxIterations
                       ELSE DEFAULT_MAX_ITERATIONS,
     phase |-> "planning",
     prompt |-> prompt,
     startedAt |-> t,
     completedAt |-> NoTime,
     sessionId |-> sessionId,
     notepadName |-> notepadNameAt(t),
     phases |-> [createInitialPhases EXCEPT
                    !["planning"] = [status |-> "in_progress", startedAt |-> t,
                                     completedAt |-> NoTime]],
     learnings |-> <<>>,
     issues |-> <<>>,
     linkedModes |-> {}]

\* The state built by initRalfresh (index.ts 97-115).
\* config: [hasMax, maxIterations, skipPlanning].
initialState(prompt, sessionId, config, t) ==
    LET first == IF config.skipPlanning THEN "execution" ELSE "planning"
    IN  [active |-> TRUE,
         iteration |-> 1,
         maxIterations |-> IF config.hasMax THEN config.maxIterations
                           ELSE DEFAULT_MAX_ITERATIONS,
         phase |-> first,
         prompt |-> prompt,
         startedAt |-> t,
         completedAt |-> NoTime,
         sessionId |-> sessionId,
         notepadName |-> notepadNameAt(t),
         phases |-> [createInitialPhases EXCEPT
                        ![first] = [status |-> "in_progress", startedAt |-> t,
                                    completedAt |-> NoTime]],
         learnings |-> <<>>,
         issues |-> <<>>,
         linkedModes |-> {}]

\* A variant of the length test that is off by one.
promptTooLong_offByOne(prompt) == StrLen(prompt) >= MAX_PROMPT_LENGTH

\* prompt.length > MAX_PROMPT_LENGTH
promptTooLong(prompt) == StrLen(prompt) > MAX_PROMPT_LENGTH

\* A variant of initRalfresh that does not look at the answer of canStartMode.
initRalfresh_ignoresRegistry(d, n, prompt, sessionId, config, allowed, t, writeOk, notesOk) ==
    IF promptTooLong(prompt)
    THEN [disk |-> d, notes |-> n, ret |-> Null, io |-> "none"]
    ELSE LET state == initialState(prompt, sessionId, config, t)
         IN  [disk |-> writeRalfreshState(d, state, writeOk),
              notes |-> initPlanNotepad(n, notepadNameAt(t), notesOk),
              ret |-> IF writeOk THEN RetState(state) ELSE Null,
              io |-> Outcome(writeOk)]

\* initRalfresh(directory, prompt, sessionId, config).  allowed: the answer
\* of canStartMode('ralfresh', directory); notesOk: whether initPlanNotepad
\* took effect.
initRalfresh(d, n, prompt, sessionId, config, allowed, t, writeOk, notesOk) ==
    IF promptTooLong(prompt) \/ ~allowed
    THEN [disk |-> d, notes |-> n, ret |-> Null, io |-> "none"]
    ELSE LET state == initialState(prompt, sessionId, config, t)
         IN  [disk |-> writeRalfreshState(d, state, writeOk),
              notes |-> initPlanNotepad(n, notepadNameAt(t), notesOk),
              ret |-> IF writeOk THEN RetState(state) ELSE Null,
              io |-> Outcome(writeOk)]

---------------------------------------------------------------------------
(* Wisdom Accumulator (state.ts 358-408) *)

\* A variant of the truncation whose length test is off by one.
truncateEntry_offByOne(text) ==
    IF StrLen(text) >= MAX_ENTRY_LENGTH
    THEN StrCat(StrTake(text, MAX_ENTRY_LENGTH - 3), Ellipsis)
    ELSE text

\* entry.length > MAX_ENTRY_LENGTH
\*   ? entry.slice(0, MAX_ENTRY_LENGTH - 3) + '...' : entry
truncateEntry(text) ==
    IF StrLen(text) > MAX_ENTRY_LENGTH
    THEN StrCat(StrTake(text, MAX_ENTRY_LENGTH - 3), Ellipsis)
    ELSE text

\* A variant of the cap that keeps the oldest entries: slice(0, max).
pushCapped_keepsOldest(log, entry, max) ==
    LET pushed == Append(log, entry)
    IN  IF Len(pushed) > max THEN SubSeq(pushed, 1, max) ELSE pushed

\* log.push(entry); if (log.length > max) log = log.slice(-max)
pushCapped(log, entry, max) ==
    LET pushed == Append(log, entry)
    IN  IF Len(pushed) > max
        THEN SubSeq(pushed, Len(pushed) - max + 1, Len(pushed))
        ELSE pushed

\* A variant of addRalfreshLearning that reports success when no state
\* was read.
addRalfreshLearning_reportsSuccess(d, n, learning, writeOk, notesOk) ==
    IF ~Readable(d)
    THEN [disk |-> d, notes |-> n, ret |-> RetBool(TRUE), io |-> "none"]
    ELSE LET state == readRalfreshState(d)
             entry == truncateEntry(learning)
             next == [state EXCEPT
                         !.learnings = pushCapped(@, entry, MAX_LEARNINGS)]
         IN  [disk |-> writeRalfreshState(d, next, writeOk),
              notes |-> addNotepadEntry(n, state.notepadName, "learnings",
                                        entry, notesOk),
              ret |-> RetBool(writeOk), io |-> Outcome(writeOk)]

\* A variant of addRalfreshLearning that also sets active.
addRalfreshLearning_reactivates(d, n, learning, writeOk, notesOk) ==
    IF ~Readable(d)
    THEN [disk |-> d, notes |-> n, ret |-> RetBool(FALSE), io |-> "none"]
    ELSE LET state == readRalfreshState(d)
             entry == truncateEntry(learning)
             next == [state EXCEPT
                         !.learnings = pushCapped(@, entry, MAX_LEARNINGS),
                         !.active = TRUE]
         IN  [disk |-> writeRalfreshState(d, next, writeOk),
              notes |-> addNotepadEntry(n, state.notepadName, "learnings",
                                        entry, notesOk),
              ret |-> RetBool(writeOk), io |-> Outcome(writeOk)]

\* addRalfreshLearning(directory, learning)
addRalfreshLearning(d, n, learning, writeOk, notesOk) ==
    IF ~Readable(d)
    THEN [disk |-> d, notes |-> n, ret |-> RetBool(FALSE), io |-> "none"]
    ELSE LET state == readRalfreshState(d)
             entry == truncateEntry(learning)
             next == [state EXCEPT
                         !.learnings = pushCapped(@, entry, MAX_LEARNINGS)]
         IN  [disk |-> writeRalfreshState(d, next, writeOk),
              notes |-> addNotepadEntry(n, state.notepadName, "learnings",
                                        entry, notesOk),
              ret |-> RetBool(writeOk), io |-> Outcome(writeOk)]

\* A variant of addRalfreshIssue whose result also depends on the notes
\* store.
addRalfreshIssue_needsNote(d, n, issue, writeOk, notesOk) ==
    IF ~Readable(d)
    THEN [disk |-> d, notes |-> n, ret |-> RetBool(FALSE), io |-> "none"]
    ELSE LET state == readRalfreshState(d)
             entry == truncateEntry(issue)
             next == [state EXCEPT
                         !.issues = pushCapped(@, entry, MAX_ISSUES)]
         IN  [disk |-> writeRalfreshState(d, next, writeOk),
              notes |-> addNotepadEntry(n, state.notepadName, "issues",
                                        entry, notesOk),
              ret |-> RetBool(writeOk /\ notesOk), io |-> Outcome(writeOk)]

\* A variant of addRalfreshIssue that writes the instance without its
\* learnings.
addRalfreshIssue_dropsLearnings(d, n, issue, writeOk, notesOk) ==
    IF ~Readable(d)
    THEN [disk |-> d, notes |-> n, ret |-> RetBool(FALSE), io |-> "none"]
    ELSE LET state == readRalfreshState(d)
             entry == truncateEntry(issue)
             next == [state EXCEPT
                         !.issues = pushCapped(@, entry, MAX_ISSUES),
                         !.learnings = <<>>]
         IN  [disk |-> writeRalfreshState(d, next, writeOk),
              notes |-> addNotepadEntry(n, state.notepadName, "issues",
                                        entry, notesOk),
              ret |-> RetBool(writeOk), io |-> Outcome(writeOk)]

\* addRalfreshIssue(directory, issue)
addRalfreshIssue(d, n, issue, writeOk, notesOk) ==
    IF ~Readable(d)
    THEN [disk |-> d, notes |-> n, ret |-> RetBool(FALSE), io |-> "none"]
    ELSE LET state == readRalfreshState(d)
             entry == truncateEntry(issue)
             next == [state EXCEPT
                         !.issues = pushCapped(@, entry, MAX_ISSUES)]
         IN  [disk |-> writeRalfreshState(d, next, writeOk),
              notes |-> addNotepadEntry(n, state.notepadName, "issues",
                                        entry, notesOk),
              ret |-> RetBool(writeOk), io |-> Outcome(writeOk)]

---------------------------------------------------------------------------
(* Loop Driver (state.ts 413-549) *)

\* getRalfreshContext(directory): the wisdom of the notes store, when it
\* has any, and the status lines.
getRalfreshContext(d, n, wisdomOk) ==
    IF ~Readable(d) THEN [kind |-> "empty"]
    ELSE LET state == readRalfreshState(d)
         IN  [kind |-> "context",
              wisdom |-> readPlanWisdom(n, state.notepadName, wisdomOk),
              iteration |-> state.iteration,
              maxIterations |-> state.maxIterations,
              phase |-> state.phase,
              prompt |-> state.prompt]

\* getRalfreshContinuationPrompt(state): one template per non-terminal
\* phase, '' otherwise.
getRalfreshContinuationPrompt(state) ==
    IF state.phase \in {"planning", "execution", "review", "assess"}
    THEN [kind |-> "template", phase |-> state.phase,
          iteration |-> state.iteration,
          maxIterations |-> state.maxIterations, prompt |-> state.prompt]
    ELSE [kind |-> "empty"]

\* processRalfreshLoop past its check of active (state.ts 512-548): the
\* terminal branch and the blocking branch.
loopDecision(d, l, g, n, sessionId, clearOk, home, failLocal, failGlobal, wisdomOk) ==
         LET state == readRalfreshState(d)
         IN  IF state.phase = "complete" \/ state.phase = "failed"
             THEN LET c == clearAllRalfreshSubModes(l, g, sessionId, FALSE, home,
                                                    failLocal, failGlobal)
                  IN  [disk |-> clearRalfreshState(d, clearOk),
                       local |-> c.local, global |-> c.global,
                       io |-> Outcome(clearOk),
                       ret |-> [kind |-> "loop", shouldBlock |-> FALSE,
                                message |-> [kind |-> IF state.phase = "complete"
                                                      THEN "completed" ELSE "failed",
                                             iteration |-> state.iteration],
                                phase |-> state.phase,
                                iteration |-> state.iteration,
                                maxIterations |-> state.maxIterations]]
             ELSE [disk |-> d, local |-> l, global |-> g, io |-> "none",
                   ret |-> [kind |-> "loop", shouldBlock |-> TRUE,
                            message |-> [kind |-> "continuation",
                                         prompt |-> getRalfreshContinuationPrompt(state),
                                         context |-> getRalfreshContext(d, n, wisdomOk)],
                            phase |-> state.phase,
                            iteration |-> state.iteration,
                            maxIterations |-> state.maxIterations]]

\* A variant of processRalfreshLoop that checks only that a state was read.
processRalfreshLoop_ignoresActive(d, l, g, n, sessionId, clearOk, home, failLocal, failGlobal, wisdomOk) ==
    IF ~Readable(d)
    THEN [disk |-> d, local |-> l, global |-> g, ret |-> Null, io |-> "none"]
    ELSE loopDecision(d, l, g, n, sessionId, clearOk, home, failLocal,
                      failGlobal, wisdomOk)

\* A variant of processRalfreshLoop that answers only the session that
\* started the instance.
processRalfreshLoop_ownSessionOnly(d, l, g, n, sessionId, clearOk, home, failLocal, failGlobal, wisdomOk) ==
    IF \/ ~Readable(d) \/ ~readRalfreshState(d).active
       \/ readRalfreshState(d).sessionId # sessionId
    THEN [disk |-> d, local |-> l, global |-> g, ret |-> Null, io |-> "none"]
    ELSE loopDecision(d, l, g, n, sessionId, clearOk, home, failLocal,
                      failGlobal, wisdomOk)

\* processRalfreshLoop(sessionId, directory): the document and the sub-mode
\* files after the call, and the value returned.
processRalfreshLoop(d, l, g, n, sessionId, clearOk, home, failLocal, failGlobal, wisdomOk) ==
    IF ~Readable(d) \/ ~readRalfreshState(d).active
    THEN [disk |-> d, local |-> l, global |-> g, ret |-> Null, io |-> "none"]
    ELSE loopDecision(d, l, g, n, sessionId, clearOk, home, failLocal,
                      failGlobal, wisdomOk)

---------------------------------------------------------------------------
(* Inputs *)

ShortPrompt == Repeat("x", 15)
\* A prompt of exactly the maximum length, and one a character longer.
MaxPrompt == Repeat("x", MAX_PROMPT_LENGTH)
LongPrompt == Repeat("x", MAX_PROMPT_LENGTH + 1)

\* A config argument of initRalfresh; hasMax: whether maxIterations is given.
Config(hasMax, maxIterations, skipPlanning) ==
    [hasMax |-> hasMax, maxIterations |-> maxIterations,
     skipPlanning |-> skipPlanning]
NoConfig == Config(FALSE, 0, FALSE)

\* The calls of initRalfresh the model makes: (prompt, sessionId, config).
StartInputs ==
    {[prompt |-> ShortPrompt, sessionId |-> NoSession, config |-> NoConfig],
     [prompt |-> MaxPrompt, sessionId |-> "s1", config |-> Config(TRUE, 1, FALSE)],
     [prompt |-> ShortPrompt, sessionId |-> "s1", config |-> Config(TRUE, 2, TRUE)],
     [prompt |-> ShortPrompt, sessionId |-> NoSession, config |-> Config(TRUE, 0, FALSE)],
     [prompt |-> LongPrompt, sessionId |-> "s1", config |-> NoConfig]}

\* Learning / issue texts: a short one and one that is too long.
ShortText == Repeat("a", 2)
LongText == Repeat("b", MAX_ENTRY_LENGTH + 2)

\* The sessionId argument of a call.
Callers == {NoSession} \cup SessionIds

\* The global sub-mode files in existence.
GlobalPresent == {f \in globalFileNames : globalFiles[f] # "absent"}

\* Number of sub-mode state files among local files l and global files g.
FileCount(l, g) ==
    Cardinality(l) + Cardinality({f \in globalFileNames : g[f] # "absent"})

\* Number of sub-mode state files in existence.
SubFileCount == Cardinality(localFiles) + Cardinality(GlobalPresent)

\* Number of entries held by the notes store.
RECURSIVE NotesCount(_, _)
NotesCount(n, hs) ==
    IF hs = {} THEN 0
    ELSE LET h == CHOOSE x \in hs : TRUE
         IN  Len(n[h].learnings) + Len(n[h].issues) + NotesCount(n, hs \ {h})

\* Room left in the logs the model appends to.
LogRoom ==
    /\ Readable(disk) =>
          Len(disk.state.learnings) + Len(disk.state.issues) < MaxEntries
    /\ NotesCount(notes, DOMAIN notes) < MaxEntries

\* The counter of returns after a call that took the document from d to e.
returnsAfter(d, e, r) ==
    IF /\ Readable(d) /\ Readable(e)
       /\ d.state.phase = "assess" /\ e.state.phase = "planning"
    THEN IF r < MaxReturns THEN r + 1 ELSE r
    ELSE r

---------------------------------------------------------------------------
(* Actions.  Each takes the sets its nondeterministic inputs are drawn     *)
(* from: the arguments of the call and the outcomes of the file system and *)
(* of the collaborators.                                                   *)

Init ==
    /\ disk \in {Absent, Corrupt}
    /\ localFiles = {}
    /\ globalFiles = [f \in globalFileNames |-> "absent"]
    /\ notes = <<>>
    /\ now = 0
    /\ returns = 0
    /\ op = [name |-> "none", io |-> "none"]
    /\ ret = Null
    /\ tmpFile = Absent
    /\ writer = Idle

\* Time passes.
Tick ==
    /\ now < MaxClock
    /\ now' = now + 1
    /\ UNCHANGED <<disk, localFiles, globalFiles, notes, returns, op, ret,
                         tmpFile, writer>>

\* A sub-mode (ralplan, swarm, ultrawork, ralph) writes a local state file.
SubModeWritesLocal ==
    /\ SubFileCount < MaxSubFiles
    /\ \E f \in localFilesToDelete \ localFiles :
          localFiles' = localFiles \cup {f}
    /\ UNCHANGED <<disk, globalFiles, notes, now, returns, op, ret,
                         tmpFile, writer>>

\* A sub-mode of some session writes a global state file.
SubModeWritesGlobal ==
    /\ SubFileCount < MaxSubFiles
    /\ \E f \in globalFileNames \ GlobalPresent,
          c \in GlobalContents \ {"absent"} :
          globalFiles' = [globalFiles EXCEPT ![f] = c]
    /\ UNCHANGED <<disk, localFiles, notes, now, returns, op, ret,
                         tmpFile, writer>>

\* initRalfresh(directory, prompt, sessionId, config)
StartWith(inputs, notesOks) ==
    \E in \in inputs, allowed \in BOOLEAN, writeOk \in BOOLEAN,
       notesOk \in notesOks :
        \E r \in {initRalfresh(disk, notes, in.prompt, in.sessionId, in.config,
                              allowed, now, writeOk, notesOk)} :
            /\ disk' = r.disk
            /\ notes' = r.notes
            /\ ret' = r.ret
            /\ returns' = IF r.ret = Null THEN returns ELSE 0
            /\ op' = [name |-> "start", prompt |-> in.prompt,
                      allowed |-> allowed, io |-> r.io]
            /\ UNCHANGED <<localFiles, globalFiles, now,
                         tmpFile, writer>>

\* transitionRalfreshPhase(directory, newPhase)
Transition ==
    \E newPhase \in RalfreshPhase, writeOk \in BOOLEAN :
        \E r \in {transitionRalfreshPhase(disk, newPhase, now, writeOk)} :
            /\ disk' = r.disk
            /\ ret' = r.ret
            /\ returns' = returnsAfter(disk, r.disk, returns)
            /\ op' = [name |-> "transition", newPhase |-> newPhase, io |-> r.io]
            /\ UNCHANGED <<localFiles, globalFiles, notes, now,
                         tmpFile, writer>>

\* Whether the model follows an increment of the iteration counter.
IterationRoom ==
    (Readable(disk) /\ ~maxIterationsReached(disk.state))
        => disk.state.iteration < MaxIteration

\* incrementRalfreshIteration(directory, sessionId)
IncrementWith(callers, homes) ==
    /\ IterationRoom
    /\ \E sessionId \in callers, writeOk \in BOOLEAN, home \in homes,
       failLocal \in SUBSET localFiles, failGlobal \in SUBSET GlobalPresent :
        \E r \in {incrementRalfreshIteration(disk, localFiles, globalFiles,
                     sessionId, now, writeOk, home, failLocal, failGlobal)} :
            /\ disk' = r.disk
            /\ localFiles' = r.local
            /\ globalFiles' = r.global
            /\ ret' = r.ret
            /\ returns' = returnsAfter(disk, r.disk, returns)
            /\ op' = [name |-> "increment", sessionId |-> sessionId,
                      home |-> home, failLocal |-> failLocal,
                      failGlobal |-> failGlobal,
                      reaped |-> SubFileCount - FileCount(r.local, r.global),
                      io |-> r.io]
            /\ UNCHANGED <<notes, now,
                         tmpFile, writer>>

\* addRalfreshLearning(directory, learning)
AddLearningWith(texts, notesOks) ==
    /\ LogRoom
    /\ \E text \in texts, writeOk \in BOOLEAN, notesOk \in notesOks :
        \E r \in {addRalfreshLearning(disk, notes, text, writeOk, notesOk)} :
            /\ disk' = r.disk
            /\ notes' = r.notes
            /\ ret' = r.ret
            /\ op' = [name |-> "addLearning", io |-> r.io]
            /\ UNCHANGED <<localFiles, globalFiles, now, returns,
                         tmpFile, writer>>

\* addRalfreshIssue(directory, issue)
AddIssueWith(texts, notesOks) ==
    /\ LogRoom
    /\ \E text \in texts, writeOk \in BOOLEAN, notesOk \in notesOks :
        \E r \in {addRalfreshIssue(disk, notes, text, writeOk, notesOk)} :
            /\ disk' = r.disk
            /\ notes' = r.notes
            /\ ret' = r.ret
            /\ op' = [name |-> "addIssue", io |-> r.io]
            /\ UNCHANGED <<localFiles, globalFiles, now, returns,
                         tmpFile, writer>>

\* The stop hook calls the Loop Driver: processRalfreshLoop(sessionId, dir).
StopEventWith(callers, homes, wisdomOks) ==
    \E sessionId \in callers, clearOk \in BOOLEAN, home \in homes,
       wisdomOk \in wisdomOks, failLocal \in SUBSET localFiles,
       failGlobal \in SUBSET GlobalPresent :
        \E r \in {processRalfreshLoop(disk, localFiles, globalFiles, notes,
                     sessionId, clearOk, home, failLocal, failGlobal, wisdomOk)} :
            /\ disk' = r.disk
            /\ localFiles' = r.local
            /\ globalFiles' = r.global
            /\ ret' = r.ret
            /\ op' = [name |-> "stop", sessionId |-> sessionId, io |-> r.io]
            /\ UNCHANGED <<notes, now, returns,
                         tmpFile, writer>>

\* Explicit cancel / clear: clearRalfreshState(directory).
Clear ==
    \E clearOk \in BOOLEAN :
        /\ disk' = clearRalfreshState(disk, clearOk)
        /\ ret' = RetBool(~Exists(disk) \/ clearOk)
        /\ op' = [name |-> "clear",
                  io |-> IF Exists(disk) THEN Outcome(clearOk) ELSE "none"]
        /\ UNCHANGED <<localFiles, globalFiles, notes, now, returns,
                         tmpFile, writer>>

\* clearAllRalfreshSubModes(directory, sessionId, force) called on its own.
Reap ==
    \E sessionId \in Callers, force \in BOOLEAN, home \in BOOLEAN,
       failLocal \in SUBSET localFiles, failGlobal \in SUBSET GlobalPresent :
        \E c \in {clearAllRalfreshSubModes(localFiles, globalFiles, sessionId,
                     force, home, failLocal, failGlobal)} :
            /\ localFiles' = c.local
            /\ globalFiles' = c.global
            /\ ret' = RetBool(c.success)
            /\ op' = [name |-> "reap", sessionId |-> sessionId,
                      force |-> force, home |-> home,
                      failLocal |-> failLocal, failGlobal |-> failGlobal,
                      reaped |-> SubFileCount - FileCount(c.local, c.global),
                      io |-> "none"]
            /\ UNCHANGED <<disk, notes, now, returns,
                         tmpFile, writer>>

---------------------------------------------------------------------------
(* Spec: the workflow of one directory driven by one session, in a         *)
(* directory where no sub-mode has left state files and with a notes store *)
(* that answers.                                                           *)

Start == StartWith(StartInputs, {TRUE})
Increment == IncrementWith({"s1"}, {TRUE})
AddLearning == AddLearningWith({LongText}, {TRUE})
AddIssue == AddIssueWith({ShortText}, {TRUE})
StopEvent == StopEventWith({"s1"}, {TRUE}, BOOLEAN)

Next ==
    \/ Tick
    \/ Start
    \/ Transition
    \/ Increment
    \/ AddLearning
    \/ AddIssue
    \/ StopEvent
    \/ Clear

Spec == Init /\ [][Next]_vars

---------------------------------------------------------------------------
(* ReaperSpec: one workflow (maxIterations = 2, planning skipped) in a     *)
(* directory where sub-modes of this and of other sessions leave state     *)
(* files, local and global; unlinkSync may fail and HOME may be unset.     *)

ReaperInputs ==
    {[prompt |-> ShortPrompt, sessionId |-> "s1", config |-> Config(TRUE, 2, TRUE)]}

ReaperStart == StartWith(ReaperInputs, {TRUE})
ReaperIncrement == IncrementWith(Callers, BOOLEAN)
ReaperStop == StopEventWith(Callers, BOOLEAN, {TRUE})

ReaperNext ==
    \/ ReaperStart
    \/ Transition
    \/ ReaperIncrement
    \/ ReaperStop
    \/ SubModeWritesLocal
    \/ SubModeWritesGlobal
    \/ Reap

ReaperSpec == Init /\ [][ReaperNext]_vars

---------------------------------------------------------------------------
(* CrashSpec: the writes of initRalfresh, transitionRalfreshPhase and      *)
(* incrementRalfreshIteration taken step by step (temp file, rename,       *)
(* return), with the process dying at any point and the next process       *)
(* reading the state document.                                             *)

\* The states the lifecycle operations hand to writeRalfreshState when the
\* document is d and the clock shows t (index.ts 117, state.ts 303, 346).
PendingWrites(d, t) ==
    {initialState(in.prompt, in.sessionId, in.config, t) :
        in \in {i \in StartInputs : ~promptTooLong(i.prompt)}}
    \cup (IF isRalfreshActive(d)
          THEN {transitionMutation(d.state, q, t) :
                   q \in VALID_TRANSITIONS[d.state.phase]}
               \cup (IF /\ ~maxIterationsReached(d.state)
                        /\ d.state.iteration < MaxIteration
                     THEN {incrementMutation(d.state, t)} ELSE {})
          ELSE {})

\* An operation calls writeRalfreshState(directory, state).
WriteBegin ==
    /\ writer.pc \in {"idle", "recovered"}
    /\ \E s \in PendingWrites(disk, now) :
          writer' = [pc |-> "begun", prior |-> disk, new |-> s]
    /\ op' = [name |-> "write", io |-> "none"]
    /\ UNCHANGED <<disk, localFiles, globalFiles, notes, now, returns, ret,
                   tmpFile>>

\* writeFileSync(tempFile, JSON.stringify(state, null, 2)) completes.
WriteTemp ==
    /\ writer.pc = "begun"
    /\ LET r == writeTempFile(disk, tmpFile, writer.new, TRUE)
       IN  disk' = r.disk /\ tmpFile' = r.tmp
    /\ writer' = [writer EXCEPT !.pc = "tempWritten"]
    /\ UNCHANGED <<localFiles, globalFiles, notes, now, returns, op, ret>>

\* The process dies inside writeFileSync.
CrashInWriteTemp ==
    /\ writer.pc = "begun"
    /\ LET r == writeTempFile(disk, tmpFile, writer.new, FALSE)
       IN  disk' = r.disk /\ tmpFile' = r.tmp
    /\ writer' = [writer EXCEPT !.pc = "crashed"]
    /\ UNCHANGED <<localFiles, globalFiles, notes, now, returns, op, ret>>

\* renameSync(tempFile, stateFile)
Rename ==
    /\ writer.pc = "tempWritten"
    /\ LET r == renameTempFile(disk, tmpFile)
       IN  /\ disk' = r.disk
           /\ tmpFile' = r.tmp
           /\ writer' = [writer EXCEPT
                            !.pc = IF r.ok THEN "renamed" ELSE "failed"]
    /\ UNCHANGED <<localFiles, globalFiles, notes, now, returns, op, ret>>

\* writeFileSync or renameSync throws: catch, return false.
WriteThrows ==
    /\ writer.pc \in {"begun", "tempWritten"}
    /\ writer' = [writer EXCEPT !.pc = "failed"]
    /\ UNCHANGED <<disk, localFiles, globalFiles, notes, now, returns, op, ret,
                   tmpFile>>

\* The process dies before the temp-file write, between the temp-file
\* write and the rename, or after the rename.
Crash ==
    /\ writer.pc \in {"begun", "tempWritten", "renamed", "failed"}
    /\ writer' = [writer EXCEPT !.pc = "crashed"]
    /\ UNCHANGED <<disk, localFiles, globalFiles, notes, now, returns, op, ret,
                   tmpFile>>

\* writeRalfreshState returns, and the operation with it.
WriteReturn ==
    /\ writer.pc \in {"renamed", "failed"}
    /\ writer' = Idle
    /\ op' = [name |-> "write", io |-> Outcome(writer.pc = "renamed")]
    /\ ret' = IF writer.pc = "renamed" THEN RetState(writer.new) ELSE Null
    /\ UNCHANGED <<disk, localFiles, globalFiles, notes, now, returns,
                   tmpFile>>

\* After a crash the next process reads the state document.
ReadAfterCrash ==
    /\ writer.pc = "crashed"
    /\ writer' = [writer EXCEPT !.pc = "recovered"]
    /\ op' = [name |-> "read", io |-> "none"]
    /\ ret' = IF Readable(disk) THEN RetState(readRalfreshState(disk))
              ELSE Null
    /\ UNCHANGED <<disk, localFiles, globalFiles, notes, now, returns,
                   tmpFile>>

CrashNext ==
    \/ Tick
    \/ WriteBegin
    \/ WriteTemp
    \/ CrashInWriteTemp
    \/ Rename
    \/ WriteThrows
    \/ Crash
    \/ WriteReturn
    \/ ReadAfterCrash

CrashSpec == Init /\ [][CrashNext]_vars

---------------------------------------------------------------------------
(* PurgeSpec: clearAllRalfreshSubModes called on its own in a directory    *)
(* where sub-modes of any session have left several state files.           *)

\* A sub-mode writes a state file, local or global.
SubModesWrite ==
    /\ SubFileCount < MaxPurgeFiles
    /\ \/ /\ \E f \in localFilesToDelete \ localFiles :
                localFiles' = localFiles \cup {f}
          /\ UNCHANGED globalFiles
       \/ /\ \E f \in globalFileNames \ GlobalPresent,
                c \in GlobalContents \ {"absent"} :
                globalFiles' = [globalFiles EXCEPT ![f] = c]
          /\ UNCHANGED localFiles
    /\ UNCHANGED <<disk, notes, now, returns, op, ret, tmpFile, writer>>

PurgeNext == SubModesWrite \/ Reap

PurgeSpec == Init /\ [][PurgeNext]_vars

---------------------------------------------------------------------------
(* Resumability Guard.  Only its declaration is in the repository          *)
(* (dist/hooks/autopilot/cancel.d.ts: cancelAutopilot, canResumeAutopilot, *)
(* STALE_STATE_MAX_AGE_MS); its rules are those of the specification,       *)
(* section 4.4, applied to the persisted instance.                         *)

\* { canResume: false }
CannotResume == [kind |-> "resume", canResume |-> FALSE]

\* A variant of the guard without rule 3 (active instances).
canResumeAutopilot_ignoresActive(d, t, clearOk) ==
    IF ~Readable(d)
    THEN [disk |-> d, ret |-> CannotResume, rule |-> 1, io |-> "none"]
    ELSE IF IsTerminal(readRalfreshState(d).phase)
    THEN [disk |-> d, ret |-> CannotResume, rule |-> 2, io |-> "none"]
    ELSE IF t - readRalfreshState(d).startedAt > STALE_STATE_MAX_AGE_MS
    THEN [disk |-> clearRalfreshState(d, clearOk), ret |-> CannotResume,
          rule |-> 4, io |-> Outcome(clearOk)]
    ELSE [disk |-> d,
          ret |-> [kind |-> "resume", canResume |-> TRUE,
                   state |-> readRalfreshState(d),
                   resumePhase |-> readRalfreshState(d).phase],
          rule |-> 5, io |-> "none"]

\* A variant of the guard that consults the staleness clock first.
canResumeAutopilot_staleFirst(d, t, clearOk) ==
    IF ~Readable(d)
    THEN [disk |-> d, ret |-> CannotResume, rule |-> 1, io |-> "none"]
    ELSE IF t - readRalfreshState(d).startedAt > STALE_STATE_MAX_AGE_MS
    THEN [disk |-> clearRalfreshState(d, clearOk), ret |-> CannotResume,
          rule |-> 4, io |-> Outcome(clearOk)]
    ELSE IF IsTerminal(readRalfreshState(d).phase)
    THEN [disk |-> d, ret |-> CannotResume, rule |-> 2, io |-> "none"]
    ELSE IF readRalfreshState(d).active
    THEN [disk |-> d, ret |-> CannotResume, rule |-> 3, io |-> "none"]
    ELSE [disk |-> d,
          ret |-> [kind |-> "resume", canResume |-> TRUE,
                   state |-> readRalfreshState(d),
                   resumePhase |-> readRalfreshState(d).phase],
          rule |-> 5, io |-> "none"]

\* A variant of the guard that marks the instance active again when it
\* finds it resumable.
canResumeAutopilot_claims(d, t, clearOk) ==
    IF ~Readable(d)
    THEN [disk |-> d, ret |-> CannotResume, rule |-> 1, io |-> "none"]
    ELSE IF IsTerminal(readRalfreshState(d).phase)
    THEN [disk |-> d, ret |-> CannotResume, rule |-> 2, io |-> "none"]
    ELSE IF readRalfreshState(d).active
    THEN [disk |-> d, ret |-> CannotResume, rule |-> 3, io |-> "none"]
    ELSE IF t - readRalfreshState(d).startedAt > STALE_STATE_MAX_AGE_MS
    THEN [disk |-> clearRalfreshState(d, clearOk), ret |-> CannotResume,
          rule |-> 4, io |-> Outcome(clearOk)]
    ELSE [disk |-> writeRalfreshState(d,
                       [readRalfreshState(d) EXCEPT !.active = TRUE], TRUE),
          ret |-> [kind |-> "resume", canResume |-> TRUE,
                   state |-> readRalfreshState(d),
                   resumePhase |-> readRalfreshState(d).phase],
          rule |-> 5, io |-> "ok"]

\* canResume(directory) at time t: the rules in order.  1: no persisted
\* instance; 2: terminal phase; 3: still marked active; 4: older than
\* STALE_STATE_MAX_AGE_MS, and the state file is deleted (clearOk: whether
\* the unlink succeeded); 5: resumable, with the phase to resume into.
canResumeAutopilot(d, t, clearOk) ==
    IF ~Readable(d)
    THEN [disk |-> d, ret |-> CannotResume, rule |-> 1, io |-> "none"]
    ELSE IF IsTerminal(readRalfreshState(d).phase)
    THEN [disk |-> d, ret |-> CannotResume, rule |-> 2, io |-> "none"]
    ELSE IF readRalfreshState(d).active
    THEN [disk |-> d, ret |-> CannotResume, rule |-> 3, io |-> "none"]
    ELSE IF t - readRalfreshState(d).startedAt > STALE_STATE_MAX_AGE_MS
    THEN [disk |-> clearRalfreshState(d, clearOk), ret |-> CannotResume,
          rule |-> 4, io |-> Outcome(clearOk)]
    ELSE [disk |-> d,
          ret |-> [kind |-> "resume", canResume |-> TRUE,
                   state |-> readRalfreshState(d),
                   resumePhase |-> readRalfreshState(d).phase],
          rule |-> 5, io |-> "none"]

\* The guard is called.  op records the rule that answered, the time of the
\* call, and the rule and time of a guard call made just before.
CanResume ==
    \E clearOk \in BOOLEAN :
        \E r \in {canResumeAutopilot(disk, now, clearOk)} :
            /\ disk' = r.disk
            /\ ret' = r.ret
            /\ op' = [name |-> "canResume", rule |-> r.rule, at |-> now,
                      afterRule |-> IF op.name = "canResume" THEN op.rule
                                    ELSE 0,
                      afterAt |-> IF op.name = "canResume" THEN op.at
                                  ELSE NoTime,
                      io |-> r.io]
            /\ UNCHANGED <<localFiles, globalFiles, notes, now, returns,
                           tmpFile, writer>>

\* cancelAutopilot(directory): the workflow is stopped and its progress
\* preserved for a resume: the instance stays, marked inactive.
Cancel ==
    /\ isRalfreshActive(disk)
    /\ disk' = writeRalfreshState(disk,
                    [readRalfreshState(disk) EXCEPT !.active = FALSE], TRUE)
    /\ ret' = RetBool(TRUE)
    /\ op' = [name |-> "cancel", io |-> "ok"]
    /\ UNCHANGED <<localFiles, globalFiles, notes, now, returns, tmpFile, writer>>

\* Time passes: up to the staleness threshold, then millisecond by
\* millisecond beyond it.
Elapse ==
    /\ now < MaxHours * STALE_STATE_MAX_AGE_MS + MaxClock
    /\ now' = IF now < STALE_STATE_MAX_AGE_MS THEN STALE_STATE_MAX_AGE_MS
              ELSE now + 1
    /\ UNCHANGED <<disk, localFiles, globalFiles, notes, returns, op, ret,
                   tmpFile, writer>>

GuardNext == ReaperStart \/ Transition \/ Cancel \/ CanResume \/ Elapse

GuardSpec == Init /\ [][GuardNext]_vars

---------------------------------------------------------------------------
(* WisdomSpec: one workflow to which learnings and issues are added one    *)
(* after the other, past MAX_LEARNINGS and MAX_ISSUES.  The k-th text of a *)
(* log is numbered by its k leading characters and is, in turn, short, of  *)
(* length exactly MAX_ENTRY_LENGTH, and longer than that.                  *)

\* The k-th learning or issue (cf. `learning ${i}` in the tests).
NoteText(k) ==
    CASE k % 3 = 1 -> Repeat("a", k)
      [] k % 3 = 2 -> StrCat(Repeat("a", k), Repeat("b", MAX_ENTRY_LENGTH - k))
      [] OTHER -> StrCat(Repeat("a", k), Repeat("b", MAX_ENTRY_LENGTH))

\* Number of calls made so far for a log, as recorded with the last call.
Added(o, log) == IF log \in DOMAIN o THEN o[log] ELSE 0

\* initRalfresh in a directory without a workflow.
WisdomStart == ~Readable(disk) /\ ReaperStart

\* addRalfreshLearning(directory, <the next learning>), succeeding.
AddNextLearning ==
    /\ Readable(disk)
    /\ Added(op, "learnings") <= MAX_LEARNINGS + MaxEntries
    /\ \E k \in {Added(op, "learnings") + 1} :
         \E r \in {addRalfreshLearning(disk, notes, NoteText(k), TRUE, TRUE)} :
           /\ disk' = r.disk
           /\ notes' = r.notes
           /\ ret' = r.ret
           /\ op' = [name |-> "addLearning", text |-> NoteText(k),
                     learnings |-> k, issues |-> Added(op, "issues"),
                     io |-> r.io]
    /\ UNCHANGED <<localFiles, globalFiles, now, returns, tmpFile, writer>>

\* addRalfreshIssue(directory, <the next issue>), succeeding.
AddNextIssue ==
    /\ Readable(disk)
    /\ Added(op, "issues") <= MAX_ISSUES + MaxEntries
    /\ \E k \in {Added(op, "issues") + 1} :
         \E r \in {addRalfreshIssue(disk, notes, NoteText(k), TRUE, TRUE)} :
           /\ disk' = r.disk
           /\ notes' = r.notes
           /\ ret' = r.ret
           /\ op' = [name |-> "addIssue", text |-> NoteText(k),
                     learnings |-> Added(op, "learnings"), issues |-> k,
                     io |-> r.io]
    /\ UNCHANGED <<localFiles, globalFiles, now, returns, tmpFile, writer>>

WisdomNext == WisdomStart \/ AddNextLearning \/ AddNextIssue

WisdomSpec == Init /\ [][WisdomNext]_vars

---------------------------------------------------------------------------
(* FileSpec: state files written by something other than                   *)
(* writeRalfreshState (an editor, another version, a damaged disk), read   *)
(* with readRalfreshState and isRalfreshActive.  The texts are the document *)
(* of a started workflow, that document with one required property left    *)
(* out or given a value of another JSON type, and texts that do not parse. *)

\* The properties isValidRalfreshState requires, with the JSON type the
\* RalfreshState interface gives each.
RequiredFields ==
    [active |-> "boolean", iteration |-> "number", maxIterations |-> "number",
     phase |-> "string", prompt |-> "string", startedAt |-> "string",
     notepadName |-> "string", phases |-> "object", learnings |-> "array",
     issues |-> "array"]

\* One value of every JSON type.
JsonSamples ==
    {JNull, JBool(TRUE), JNum(0), JStr(Repeat("x", 1)), JArr(<<>>), JObj(<<>>)}

\* The documents writeRalfreshState would write for a started workflow.
WrittenDocuments ==
    {stringify(initialState(ShortPrompt, "s1", NoConfig, 0)),
     stringify(transitionMutation(
                   initialState(ShortPrompt, NoSession,
                                Config(TRUE, 2, TRUE), 0), "review", 1))}

\* doc without property k.
WithoutField(doc, k) == JObj([j \in DOMAIN doc.v \ {k} |-> doc.v[j]])

\* doc with property k set to w.
WithField(doc, k, w) == JObj([doc.v EXCEPT ![k] = w])

FileTexts ==
    {Unparseable, Text(JNull), Text(JArr(<<>>)), Text(JObj(<<>>))}
    \cup {Text(doc) : doc \in WrittenDocuments}
    \cup {Text(WithoutField(doc, k)) :
              doc \in WrittenDocuments, k \in DOMAIN RequiredFields}
    \cup UNION {{Text(WithField(doc, k, w)) :
                    w \in {x \in JsonSamples : x.t # RequiredFields[k]}} :
                doc \in WrittenDocuments, k \in DOMAIN RequiredFields}

\* Something writes the state file.
ExternalWrite ==
    /\ \E text \in FileTexts :
          /\ disk' = StateFile(text)
          /\ op' = [name |-> "file", text |-> text, io |-> "none"]
    /\ ret' = Null
    /\ UNCHANGED <<localFiles, globalFiles, notes, now, returns, tmpFile, writer>>

\* readRalfreshState(directory) on the file written.
ReadState ==
    /\ op.name \in {"file", "read", "active"}
    /\ op' = [op EXCEPT !.name = "read"]
    /\ ret' = IF Readable(disk) THEN RetState(readRalfreshState(disk)) ELSE Null
    /\ UNCHANGED <<disk, localFiles, globalFiles, notes, now, returns, tmpFile, writer>>

\* isRalfreshActive(directory) on the file written.
IsActive ==
    /\ op.name \in {"file", "read", "active"}
    /\ op' = [op EXCEPT !.name = "active"]
    /\ ret' = RetBool(isRalfreshActive(disk))
    /\ UNCHANGED <<disk, localFiles, globalFiles, notes, now, returns, tmpFile, writer>>

FileNext == ExternalWrite \/ ReadState \/ IsActive

FileSpec == Init /\ [][FileNext]_vars

---------------------------------------------------------------------------
(* NotesSpec: one workflow with a notes store whose calls may have no      *)
(* effect: initPlanNotepad at the start, addNotepadLearning and            *)
(* addNotepadIssue at each entry, readPlanWisdom at each stop event.       *)

NotesNext ==
    \/ StartWith(ReaperInputs, BOOLEAN)
    \/ Transition
    \/ AddLearningWith({ShortText}, BOOLEAN)
    \/ AddIssueWith({ShortText}, BOOLEAN)
    \/ StopEventWith({"s1"}, {TRUE}, BOOLEAN)

NotesSpec == Init /\ [][NotesNext]_vars

---------------------------------------------------------------------------
(* ResumeSpec: one workflow driven by start, transition, incrementIteration, *)
(* addLearning and addIssue alone, with the guard called at any point and    *)
(* the clock running past the staleness threshold.                           *)

ResumeNext ==
    \/ StartWith(ReaperInputs, {TRUE})
    \/ Transition
    \/ IncrementWith({"s1"}, {TRUE})
    \/ AddLearningWith({ShortText}, {TRUE})
    \/ AddIssueWith({ShortText}, {TRUE})
    \/ CanResume
    \/ Elapse

ResumeSpec == Init /\ [][ResumeNext]_vars

---------------------------------------------------------------------------
(* RaceSpec: two sessions operate on the same directory with no lock.  Each *)
(* read-modify-write function is two steps: its readRalfreshState, and the  *)
(* rest of it, which ends in writeRalfreshState of the object read and      *)
(* modified.  Steps of the two sessions interleave freely.  writer holds,   *)
(* per session, the document its function has read and not yet written.    *)

\* The document session s has read in the function it is executing.
Pending(s) ==
    IF writer.pc = "reading" THEN writer.read[s] ELSE [kind |-> "none"]

\* What has happened so far: acked, the entries whose addLearning or
\* addIssue returned true; stale, whether some function wrote an object it
\* had read before another write.
RaceLog ==
    IF "acked" \in DOMAIN op THEN [acked |-> op.acked, stale |-> op.stale]
    ELSE [acked |-> {}, stale |-> FALSE]

\* The entries of the learnings and the issues of document d.
Entries(d) ==
    IF Readable(d)
    THEN {d.state.learnings[i] : i \in DOMAIN d.state.learnings}
         \cup {d.state.issues[i] : i \in DOMAIN d.state.issues}
    ELSE {}

\* const state = readRalfreshState(directory), when it returns a state
\* (state.ts 274, 317, 359, 388).
RaceRead(s) ==
    /\ Readable(disk)
    /\ Pending(s).kind = "none"
    /\ writer' = [pc |-> "reading",
                  read |-> [q \in SessionIds |->
                               IF q = s THEN disk ELSE Pending(q)]]
    /\ UNCHANGED <<disk, localFiles, globalFiles, notes, now, returns, op,
                   ret, tmpFile>>

\* The rest of the function of session s, given its result r computed from
\* the document read: the state file is replaced only when r's write
\* succeeded.
RaceFinish(s, name, r, entry) ==
    /\ disk' = IF r.io = "ok" THEN r.disk ELSE disk
    /\ ret' = r.ret
    /\ op' = [name |-> name, io |-> r.io,
              acked |-> IF r.ret = RetBool(TRUE)
                        THEN RaceLog.acked \cup entry ELSE RaceLog.acked,
              stale |-> RaceLog.stale \/ (r.io = "ok" /\ Pending(s) # disk)]
    /\ writer' = [writer EXCEPT !.read[s] = [kind |-> "none"]]
    /\ UNCHANGED <<localFiles, globalFiles, now, returns, tmpFile>>

\* The next entry text: one never used before.
RaceText == Repeat("a", NotesCount(notes, DOMAIN notes) + 1)

\* addRalfreshLearning past its read (state.ts 364-378).
RaceAddLearning(s) ==
    /\ Pending(s).kind = "state"
    /\ NotesCount(notes, DOMAIN notes) < MaxRaceWrites
    /\ \E writeOk \in BOOLEAN :
        \E r \in {addRalfreshLearning(Pending(s), notes, RaceText, writeOk, TRUE)} :
            /\ notes' = r.notes
            /\ RaceFinish(s, "addLearning", r, {RaceText})

\* addRalfreshIssue past its read (state.ts 393-407).
RaceAddIssue(s) ==
    /\ Pending(s).kind = "state"
    /\ NotesCount(notes, DOMAIN notes) < MaxRaceWrites
    /\ \E writeOk \in BOOLEAN :
        \E r \in {addRalfreshIssue(Pending(s), notes, RaceText, writeOk, TRUE)} :
            /\ notes' = r.notes
            /\ RaceFinish(s, "addIssue", r, {RaceText})

\* transitionRalfreshPhase past its read (state.ts 275-306).
RaceTransition(s) ==
    /\ Pending(s).kind = "state"
    /\ \E newPhase \in RalfreshPhase, writeOk \in BOOLEAN :
        \E r \in {transitionRalfreshPhase(Pending(s), newPhase, now, writeOk)} :
            /\ notes' = notes
            /\ RaceFinish(s, "transition", r, {})

RaceNext ==
    \/ WisdomStart
    \/ \E s \in SessionIds :
          \/ RaceRead(s)
          \/ RaceAddLearning(s)
          \/ RaceAddIssue(s)
          \/ RaceTransition(s)

RaceSpec == Init /\ [][RaceNext]_vars

---------------------------------------------------------------------------
(* NotifySpec: the notification configuration of one event, queried with   *)
(* isEventEnabled and getEnabledPlatforms (notifications/config.ts) and    *)
(* used by dispatchNotifications (notifications/dispatcher.ts).  A         *)
(* platform setting is "absent", "on" (enabled: true) or "off" (enabled:   *)
(* false).  op holds the configuration and, during a dispatch, the sends   *)
(* and the timer; ret holds the value returned, once there is one.         *)

\* The platforms, in the order of the checkPlatform calls.
NotificationPlatform ==
    SubSeq(<<"discord", "discord-bot", "telegram", "slack", "webhook">>,
           1, MaxPlatforms)

Platforms == {NotificationPlatform[i] : i \in DOMAIN NotificationPlatform}

\* The configurations: enabled, the top-level platform settings, and
\* config.events[event]: absent, or with its own enabled (undefined, true
\* or false) and its platform settings.
NotificationConfigs ==
    LET settings == [Platforms -> {"absent", "on", "off"}]
        none == [p \in Platforms |-> "absent"]
    IN  {[enabled |-> e, top |-> t, event |-> ev] :
            e \in BOOLEAN, t \in settings,
            ev \in {[present |-> FALSE, enabled |-> "undefined", over |-> none]}
                   \cup [present : {TRUE},
                         enabled : {"undefined", "true", "false"},
                         over : settings]}

\* isEventEnabled(config, event)
isEventEnabled(config) ==
    IF ~config.enabled THEN FALSE
    ELSE IF config.event.present /\ config.event.enabled = "false" THEN FALSE
    ELSE IF ~config.event.present
    THEN \E p \in Platforms : config.top[p] = "on"
    ELSE IF \E p \in Platforms : config.event.over[p] = "on" THEN TRUE
    ELSE \E p \in Platforms : config.top[p] = "on"

\* getEffectivePlatformConfig(platform, config, event): the event-level
\* setting when there is one, the top-level setting otherwise.
getEffectivePlatformConfig(platform, config) ==
    IF config.event.over[platform] # "absent"
    THEN config.event.over[platform]
    ELSE config.top[platform]

\* getEnabledPlatforms(config, event); checkPlatform decides by the
\* event-level setting when there is one, by the top-level one otherwise.
getEnabledPlatforms(config) ==
    IF ~config.enabled THEN <<>>
    ELSE IF config.event.present /\ config.event.enabled = "false" THEN <<>>
    ELSE SelectSeq(NotificationPlatform,
                   LAMBDA p : IF config.event.over[p] # "absent"
                              THEN config.event.over[p] = "on"
                              ELSE config.top[p] = "on")

NotifyInit ==
    /\ disk = Absent
    /\ localFiles = {}
    /\ globalFiles = [f \in globalFileNames |-> "absent"]
    /\ notes = <<>>
    /\ now = 0
    /\ returns = 0
    /\ op \in [name : {"config"}, config : NotificationConfigs]
    /\ ret = Null
    /\ tmpFile = Absent
    /\ writer = Idle

\* isEventEnabled(config, event) and getEnabledPlatforms(config, event).
CheckEvent ==
    /\ op.name = "config"
    /\ op' = [name |-> "isEventEnabled", config |-> op.config]
    /\ ret' = [kind |-> "enabled", value |-> isEventEnabled(op.config),
               platforms |-> getEnabledPlatforms(op.config)]
    /\ UNCHANGED <<disk, localFiles, globalFiles, notes, now, returns,
                   tmpFile, writer>>

\* dispatchNotifications up to its await: a send is started for every
\* platform whose effective setting is enabled; with none, the result is
\* returned at once; otherwise the timer is set and the caller waits.
Dispatch ==
    /\ op.name \in {"config", "isEventEnabled"}
    /\ \E started \in {{p \in Platforms :
                          getEffectivePlatformConfig(p, op.config) = "on"}} :
          /\ op' = [name |-> "dispatch", config |-> op.config,
                    sends |-> [p \in started |-> "pending"],
                    timer |-> IF started = {} THEN "none" ELSE "set"]
          /\ ret' = IF started = {}
                    THEN [kind |-> "dispatch", results |-> <<>>,
                          anySuccess |-> FALSE]
                    ELSE [kind |-> "pending"]
    /\ UNCHANGED <<disk, localFiles, globalFiles, notes, now, returns,
                   tmpFile, writer>>

\* The value Promise.allSettled(promises).then(...) resolves to: a result
\* per send, a rejected one reported for platform 'unknown'.
settledResults(sends) ==
    [kind |-> "dispatch",
     results |-> [p \in DOMAIN sends |->
                    [platform |-> IF sends[p] = "rejected" THEN "unknown"
                                  ELSE p,
                     success |-> sends[p] = "ok"]],
     anySuccess |-> \E p \in DOMAIN sends : sends[p] = "ok"]

\* The send of platform p settles while the caller waits: fulfilled with
\* success true ("ok") or false ("failed"), or rejected.  When it is the
\* last one, Promise.allSettled resolves and the caller gets the results.
SendSettles ==
    /\ op.name = "dispatch"
    /\ ret.kind = "pending"
    /\ \E p \in DOMAIN op.sends, outcome \in {"ok", "failed", "rejected"} :
          /\ op.sends[p] = "pending"
          /\ op' = [op EXCEPT !.sends[p] = outcome]
    /\ ret' = IF \A p \in DOMAIN op.sends : op'.sends[p] # "pending"
              THEN settledResults(op'.sends)
              ELSE ret
    /\ UNCHANGED <<disk, localFiles, globalFiles, notes, now, returns,
                   tmpFile, writer>>

\* The timer set for DISPATCH_TIMEOUT_MS fires: a dispatch that is still
\* waiting resolves to the single result 'Dispatch timeout'.
DispatchTimeout ==
    /\ op.name = "dispatch"
    /\ op.timer = "set"
    /\ op' = [op EXCEPT !.timer = "fired"]
    /\ ret' = IF ret.kind = "pending"
              THEN [kind |-> "dispatch",
                    results |-> <<[platform |-> "unknown", success |-> FALSE]>>,
                    anySuccess |-> FALSE]
              ELSE ret
    /\ UNCHANGED <<disk, localFiles, globalFiles, notes, now, returns,
                   tmpFile, writer>>

NotifyNext ==
    \/ CheckEvent
    \/ Dispatch
    \/ SendSettles
    \/ DispatchTimeout

NotifySpec == NotifyInit /\ [][NotifyNext]_vars

---------------------------------------------------------------------------
(* Properties *)

\* The phases whose record is in_progress.
InProgress(state) == {p \in RalfreshPhase : state.phases[p].status = "in_progress"}

\* C1: a transition of an active instance along a pair (p, q) that is no
\* edge of the Phase Graph (VALID_TRANSITIONS) returns null and leaves the document as it was.
C1_InvalidTransitionRejected ==
    [][(/\ isRalfreshActive(disk)
        /\ Transition
        /\ op'.newPhase \notin VALID_TRANSITIONS[disk.state.phase])
       => (ret' = Null /\ disk' = disk)]_vars

\* C1 witness: planning -> complete was asked of an active instance and
\* rejected.
C1_Witness ==
    /\ op = [name |-> "transition", newPhase |-> "complete", io |-> "none"]
    /\ ret = Null
    /\ isRalfreshActive(disk)
    /\ disk.state.phase = "planning"

\* C2 (as claimed): incrementIteration on an active instance with
\* iteration = maxIterations, in whatever phase, leaves phase = failed and
\* active = false (when the state write does not fail), and never
\* iteration = maxIterations + 1.
C2_CeilingAlwaysFails ==
    [][(/\ isRalfreshActive(disk)
        /\ disk.state.iteration = disk.state.maxIterations
        /\ Increment
        /\ op'.io # "failed")
       => (/\ Readable(disk')
           /\ disk'.state.phase = "failed"
           /\ ~disk'.state.active
           /\ disk'.state.iteration # disk.state.maxIterations + 1
           /\ ret' = RetState(disk'.state))]_vars

\* C3 (as claimed): an instance whose ceiling is maxIterations >= 1 goes
\* back from assess to planning at most maxIterations - 1 times.
C3_RetriesWithinCeiling ==
    (Readable(disk) /\ disk.state.maxIterations >= 1)
        => returns <= disk.state.maxIterations - 1

\* C4: while active = true exactly one phase record is in_progress, the
\* record of the current phase.
C4_OneInProgress ==
    isRalfreshActive(disk) => InProgress(disk.state) = {disk.state.phase}

\* C4 witness: an active instance after an increment that was granted.
C4_Witness ==
    /\ op.name = "increment"
    /\ ret # Null
    /\ isRalfreshActive(disk)
    /\ disk.state.iteration = 2
    /\ InProgress(disk.state) = {"planning"}

\* C5: in every persisted state the lifecycle operations produce, active =
\* false, a terminal phase and a set completedAt go together: an inactive
\* instance is in complete or failed with completedAt set, and an instance
\* in a non-terminal phase is active with completedAt null.
C5_InactiveIffTerminal ==
    Readable(disk) =>
        /\ ~disk.state.active <=> IsTerminal(disk.state.phase)
        /\ ~disk.state.active <=> disk.state.completedAt # NoTime

\* C5 witness: an instance a transition has just moved to failed.
C5_Witness ==
    /\ op.name = "transition"
    /\ ret # Null
    /\ Readable(disk)
    /\ disk.state.phase = "failed"
    /\ ~disk.state.active
    /\ disk.state.completedAt # NoTime

\* C6 (as claimed): active = true implies 1 <= iteration <= maxIterations.
C6_IterationWithinCeiling ==
    isRalfreshActive(disk) =>
        (1 <= disk.state.iteration
         /\ disk.state.iteration <= disk.state.maxIterations)

\* C7 (as claimed): every change of the persisted phase made by transition
\* or incrementIteration follows an edge of the Phase Graph, and a record
\* becomes complete only from in_progress.
C7_GraphOrder ==
    [][(/\ Readable(disk) /\ Readable(disk')
        /\ Transition \/ Increment)
       => (/\ disk'.state.phase # disk.state.phase =>
                disk'.state.phase \in VALID_TRANSITIONS[disk.state.phase]
           /\ \A p \in RalfreshPhase :
                (/\ disk'.state.phases[p].status = "complete"
                 /\ disk.state.phases[p].status # "complete")
                => disk.state.phases[p].status = "in_progress")]_vars

\* C8: in a terminal phase every transition and every incrementIteration
\* returns null and leaves the document as it was.
C8_TerminalAbsorbing ==
    [][(/\ Readable(disk)
        /\ IsTerminal(disk.state.phase)
        /\ Transition \/ Increment)
       => (ret' = Null /\ disk' = disk)]_vars

\* C8 witness: incrementIteration was called on a completed instance and
\* returned null.
C8_Witness ==
    /\ op.name = "increment"
    /\ ret = Null
    /\ Readable(disk)
    /\ disk.state.phase = "complete"

\* C9 (as claimed): a stop event on an instance in a terminal phase deletes
\* the document (when unlink does not fail) and returns a decision with
\* shouldBlock = false, the phase and the iteration metadata.
C9_TerminalStopPurges ==
    [][(/\ Readable(disk)
        /\ IsTerminal(disk.state.phase)
        /\ StopEvent
        /\ op'.io # "failed")
       => (/\ ~Exists(disk')
           /\ ret'.kind = "loop"
           /\ ~ret'.shouldBlock
           /\ ret'.phase = disk.state.phase
           /\ ret'.iteration = disk.state.iteration
           /\ ret'.maxIterations = disk.state.maxIterations)]_vars

C11_TransitionEffect ==
    [][(op'.name = "transition" /\ ret' # Null /\ Transition)
       => LET old == disk.state
              new == disk'.state
              p == old.phase
              q == op'.newPhase
          IN  /\ Readable(disk')
              /\ ret' = RetState(new)
              /\ new.phase = q
              /\ new.phases[p].status = "complete"
              /\ new.phases[p].completedAt = now
              /\ new.phases[q].status = "in_progress"
              /\ new.phases[q].startedAt = now
              /\ \A x \in RalfreshPhase \ {p, q} : new.phases[x] = old.phases[x]
              /\ new.iteration = old.iteration
              /\ IF IsTerminal(q)
                 THEN ~new.active /\ new.completedAt = now
                 ELSE new.active /\ new.completedAt = old.completedAt
              /\ (q = "complete" /\ new.maxIterations = DEFAULT_MAX_ITERATIONS)
                 => (/\ ~new.active
                     /\ new.completedAt # NoTime
                     /\ \A x \in {"planning", "execution", "review", "assess"} :
                           new.phases[x].status = "complete")]_vars

\* C11 witness: the default-config workflow has been driven to complete.
C11_Witness ==
    /\ op.name = "transition"
    /\ op.newPhase = "complete"
    /\ ret # Null
    /\ Readable(disk)
    /\ disk.state.maxIterations = DEFAULT_MAX_ITERATIONS
    /\ disk.state.phase = "complete"
    /\ ~disk.state.active
    /\ disk.state.phases["assess"].status = "complete"

\* C13: for an active instance in assess with iteration = maxIterations,
\* incrementIteration (its state write not failing) yields phase = failed,
\* active = false, completedAt set and iteration unchanged.
C13_CeilingInAssessFails ==
    [][(/\ isRalfreshActive(disk)
        /\ disk.state.phase = "assess"
        /\ disk.state.iteration = disk.state.maxIterations
        /\ op'.name = "increment"
        /\ op'.io # "failed"
        /\ Increment)
       => (/\ Readable(disk')
           /\ ret' = RetState(disk'.state)
           /\ disk'.state.phase = "failed"
           /\ ~disk'.state.active
           /\ disk'.state.completedAt # NoTime
           /\ disk'.state.iteration = disk.state.iteration)]_vars

\* C13 witness: maxIterations = 2, one full retry, and the second increment
\* has failed the workflow with iteration still 2.
C13_Witness ==
    /\ op.name = "increment"
    /\ ret # Null
    /\ Readable(disk)
    /\ disk.state.phase = "failed"
    /\ disk.state.maxIterations = 2
    /\ disk.state.iteration = 2
    /\ disk.state.phases["assess"].status = "complete"

\* C14: a successful start persists and returns an instance with active =
\* true, iteration = 1, completedAt unset, empty learnings and issues, phase
\* = planning (execution when skipPlanning is configured), the entry phase's
\* record in_progress with a startedAt, every other record pending.
C14_StartResult ==
    [][(op'.name = "start" /\ ret' # Null /\ Start)
       => LET new == disk'.state
          IN  /\ Readable(disk')
              /\ ret' = RetState(new)
              /\ new.active
              /\ new.iteration = 1
              /\ new.completedAt = NoTime
              /\ new.learnings = <<>>
              /\ new.issues = <<>>
              /\ new.prompt = op'.prompt
              /\ \E in \in StartInputs :
                    /\ in.prompt = new.prompt
                    /\ in.sessionId = new.sessionId
                    /\ new.phase = IF in.config.skipPlanning THEN "execution"
                                   ELSE "planning"
              /\ new.phases[new.phase].status = "in_progress"
              /\ new.phases[new.phase].startedAt = now
              /\ \A x \in RalfreshPhase \ {new.phase} :
                    new.phases[x].status = "pending"]_vars

\* C14 witness: a start configured with skipPlanning has succeeded.
C14_Witness ==
    /\ op.name = "start"
    /\ ret # Null
    /\ Readable(disk)
    /\ disk.state.phase = "execution"
    /\ disk.state.phases["execution"].status = "in_progress"
    /\ disk.state.phases["planning"].status = "pending"

\* C15: start accepts a prompt of at most the maximum length when the
\* registry allows it (it goes on to write the state document, and returns
\* the persisted instance when the write succeeds), and rejects a longer one
\* with null, writing nothing and leaving the state document as it was.
C15_PromptLengthBoundary ==
    [][(op'.name = "start" /\ Start)
       => /\ (StrLen(op'.prompt) <= MAX_PROMPT_LENGTH /\ op'.allowed)
             => (/\ op'.io # "none"
                 /\ op'.io = "ok" =>
                       (/\ ret' # Null
                        /\ Readable(disk')
                        /\ disk'.state.prompt = op'.prompt))
          /\ StrLen(op'.prompt) > MAX_PROMPT_LENGTH
             => (ret' = Null /\ disk' = disk /\ op'.io = "none")]_vars

\* C15 witness: a prompt of exactly MAX_PROMPT_LENGTH characters was
\* accepted and persisted.
C15_Witness ==
    /\ op.name = "start"
    /\ StrLen(op.prompt) = MAX_PROMPT_LENGTH
    /\ ret # Null
    /\ Readable(disk)
    /\ StrLen(disk.state.prompt) = MAX_PROMPT_LENGTH

\* C16: when the registry answers not allowed, start returns null, creates
\* no notes document and writes no state document (it makes no write at
\* all: io = none).
C16_RegistryFirst ==
    [][(op'.name = "start" /\ ~op'.allowed /\ Start)
       => (/\ ret' = Null
           /\ disk' = disk
           /\ notes' = notes
           /\ op'.io = "none")]_vars

\* C16 witness: a start with an acceptable prompt was refused by the
\* registry in a directory that has no state document and no notes.
C16_Witness ==
    /\ op.name = "start"
    /\ ~op.allowed
    /\ StrLen(op.prompt) <= MAX_PROMPT_LENGTH
    /\ ret = Null
    /\ disk = Absent
    /\ notes = <<>>

\* C17 (as claimed): a start in a directory that holds an active instance
\* leaves that instance unchanged.
C17_StartKeepsActiveInstance ==
    [][(op'.name = "start" /\ isRalfreshActive(disk) /\ Start)
       => disk' = disk]_vars

C20_FailedWriteInvisible ==
    [][(/\ op'.io = "failed"
        /\ Start \/ Transition \/ Increment \/ AddLearning \/ AddIssue)
       => (/\ disk' = disk
           /\ ret' \in {Null, RetBool(FALSE)})]_vars

\* C20 witness: the write of an addLearning failed, false was returned and
\* the document holds no learning.
C20_Witness ==
    /\ op.name = "addLearning"
    /\ op.io = "failed"
    /\ ret = RetBool(FALSE)
    /\ Readable(disk)
    /\ disk.state.learnings = <<>>

\* C12: for an active instance with iteration < maxIterations,
\* incrementIteration (its state write succeeding) increases iteration by 1,
\* resets every phase record to pending, sets planning to in_progress with
\* a startedAt and phase to planning, runs the Sub-mode Reaper with the
\* caller's sessionId (every enumerated local file whose unlink does not
\* fail is gone; a global file is gone exactly when HOME is set, the file
\* records the caller's session and its unlink does not fail), and persists
\* and returns the result.
C12_IncrementEffect ==
    [][(/\ op'.name = "increment"
        /\ op'.io = "ok"
        /\ isRalfreshActive(disk)
        /\ disk.state.iteration < disk.state.maxIterations
        /\ ReaperIncrement)
       => LET old == disk.state
              new == disk'.state
          IN  /\ Readable(disk')
              /\ ret' = RetState(new)
              /\ new.iteration = old.iteration + 1
              /\ new.phase = "planning"
              /\ new.phases["planning"] =
                    [status |-> "in_progress", startedAt |-> now,
                     completedAt |-> NoTime]
              /\ \A x \in RalfreshPhase \ {"planning"} :
                    new.phases[x] = PendingPhase
              /\ new.active
              /\ localFiles' =
                    (localFiles \ localFilesToDelete)
                        \cup (localFiles \cap op'.failLocal)
              /\ \A f \in globalFileNames :
                    globalFiles'[f] =
                        IF /\ op'.home
                           /\ op'.sessionId # NoSession
                           /\ globalFiles[f] = op'.sessionId
                           /\ f \notin op'.failGlobal
                        THEN "absent"
                        ELSE globalFiles[f]]_vars

\* C12 witness: an increment called by session s1 was granted and its
\* reaper deleted a sub-mode state file.
C12_Witness ==
    /\ op.name = "increment"
    /\ op.io = "ok"
    /\ op.sessionId = "s1"
    /\ op.reaped = 1
    /\ ret # Null
    /\ Readable(disk)
    /\ disk.state.iteration = 2
    /\ disk.state.phase = "planning"
    /\ SubFileCount = 0

\* C19: at every point of a state write, and after a crash at any of them,
\* the state document is the document before the write or the complete new
\* one, and the read after a crash returns one of the two.
C19_CrashAtomicWrite ==
    /\ writer.pc # "idle" =>
          (disk = writer.prior \/ disk = Stored(writer.new))
    /\ writer.pc = "recovered" =>
          \/ ret = RetState(writer.new)
          \/ ret = IF Readable(writer.prior)
                   THEN RetState(readRalfreshState(writer.prior)) ELSE Null

\* C19 witness: the process died inside the temp-file write of a transition
\* to review; the temp file is torn and the state document is the prior one.
C19_Witness ==
    /\ writer.pc = "crashed"
    /\ tmpFile = Corrupt
    /\ Readable(writer.prior)
    /\ disk = writer.prior
    /\ writer.new.phase = "review"
    /\ disk.state.phase = "execution"


\* C21: a state written with writeRalfreshState and read back with
\* readRalfreshState is equal field for field to the state written: after
\* every operation that wrote the document and returned the state it wrote
\* (start in particular), the state read from the document is the state
\* returned.
C21_RoundTrip ==
    (op.io = "ok" /\ ret.kind = "state") =>
        /\ Readable(disk)
        /\ readRalfreshState(disk) = ret.state
        /\ \A k \in DOMAIN ret.state : readRalfreshState(disk)[k] = ret.state[k]

\* C21 witness: start without a session id wrote the document and what is
\* read back is the state start returned, sessionId undefined included.
C21_Witness ==
    /\ op.name = "start"
    /\ op.io = "ok"
    /\ ret.kind = "state"
    /\ ret.state.sessionId = NoSession
    /\ ret.state.completedAt = NoTime
    /\ Readable(disk)
    /\ readRalfreshState(disk) = ret.state


\* The text is not parseable JSON, or lacks one of the required properties,
\* or gives one of them a value of another type than the schema's.
Defective(text) ==
    \/ ~text.json
    \/ \E k \in DOMAIN RequiredFields :
          Field(text.value, k).t # RequiredFields[k]

\* C22: a state file that is not parseable JSON, or that lacks or mistypes
\* one of the required fields, is read back as absent: readRalfreshState
\* returns null and isRalfreshActive false, never a partly populated state.
C22_DefectiveReadsAbsent ==
    (op.name \in {"file", "read", "active"} /\ Defective(op.text)) =>
        /\ ~Readable(disk)
        /\ op.name = "read" => ret = Null
        /\ op.name = "active" => ret = RetBool(FALSE)


\* C23: a global sub-mode file goes away only in a call of the reaper
\* (incrementIteration, stop event, purge) made with force, or with the
\* session id the file records; a file of another session, and every global
\* file when neither sessionId nor force is given, stays as it is.
C23_GlobalOnlyOwnOrForced ==
    [][\A f \in globalFileNames :
          (globalFiles[f] # "absent" /\ globalFiles'[f] # globalFiles[f]) =>
              /\ op'.name \in {"increment", "stop", "reap"}
              /\ globalFiles'[f] = "absent"
              /\ \/ op'.name = "reap" /\ op'.force
                 \/ op'.sessionId # NoSession /\ globalFiles[f] = op'.sessionId
      ]_vars

\* C23 witness: a purge by session s1 without force, HOME set and no
\* unlinkSync failing, ran over the global file recorded for s2 and left it.
C23_Witness ==
    /\ op.name = "reap"
    /\ op.sessionId = "s1"
    /\ ~op.force
    /\ op.home
    /\ op.failGlobal = {}
    /\ op.reaped = 0
    /\ ret = RetBool(TRUE)
    /\ \E f \in globalFileNames : globalFiles[f] = "s2"


\* C24: the reaper deletes every existing file of its enumerated local set
\* whatever sessionId and force are: after a purge (a step that is not a
\* sub-mode writing a file) in which no unlinkSync of a local file failed,
\* none of those files exists.
C24_LocalsAlwaysDeleted ==
    [][(op'.name = "reap" /\ ~SubModesWrite /\ op'.failLocal = {}) =>
          localFiles' \cap localFilesToDelete = {}]_vars

\* C24 witness: a purge without session id and without force deleted two
\* local files.
C24_Witness ==
    /\ op.name = "reap"
    /\ op.sessionId = NoSession
    /\ ~op.force
    /\ op.failLocal = {}
    /\ op.reaped = 2
    /\ localFiles = {}

\* The deletions a purge attempts: every existing enumerated local file,
\* and, HOME being set, every global file that parses and is forced or owned.
AttemptedLocal == localFiles \cap localFilesToDelete
AttemptedGlobal(o) ==
    {f \in globalFileNames :
        /\ o.home
        /\ globalFiles[f] \notin {"absent", "junk"}
        /\ o.force \/ (o.sessionId # NoSession /\ globalFiles[f] = o.sessionId)}

C26_ResumableExactly ==
    [][(op'.name = "canResume" /\ ~Elapse) =>
          /\ ret'.canResume <=>
                /\ Readable(disk)
                /\ ~IsTerminal(disk.state.phase)
                /\ ~disk.state.active
                /\ now - disk.state.startedAt <= STALE_STATE_MAX_AGE_MS
          /\ ret'.canResume => ret'.resumePhase = disk.state.phase
          /\ (Readable(disk) /\ (disk.state.active \/ IsTerminal(disk.state.phase)))
                => (~ret'.canResume /\ op'.rule \in {2, 3})
      ]_vars

\* C26 witness: an instance cancelled in review, exactly as old as the
\* threshold, is resumable into review.
C26_Witness ==
    /\ op.name = "canResume"
    /\ op.rule = 5
    /\ ret.canResume
    /\ ret.resumePhase = "review"
    /\ Readable(disk)
    /\ ~disk.state.active
    /\ op.at - disk.state.startedAt = STALE_STATE_MAX_AGE_MS

\* C26 witness: an active instance older than the threshold is refused by
\* the rule on active instances and stays.
C26_WitnessActiveOld ==
    /\ op.name = "canResume"
    /\ op.rule = 3
    /\ ~ret.canResume
    /\ Readable(disk)
    /\ disk.state.active
    /\ op.at - disk.state.startedAt > STALE_STATE_MAX_AGE_MS

\* C27: the guard deletes the instance document only when the instance is
\* inactive, not terminal and older than the staleness threshold; an
\* active or terminal instance is left as it is however old; with no
\* instance the guard answers cannot-resume by rule 1.
C27_DeletesOnlyStale ==
    [][(op'.name = "canResume" /\ ~Elapse) =>
          /\ disk' # disk =>
                /\ Readable(disk)
                /\ ~disk.state.active
                /\ ~IsTerminal(disk.state.phase)
                /\ now - disk.state.startedAt > STALE_STATE_MAX_AGE_MS
                /\ disk' = Absent
          /\ (Readable(disk) /\ (disk.state.active \/ IsTerminal(disk.state.phase)))
                => disk' = disk
          /\ ~Exists(disk) => (op'.rule = 1 /\ ret' = CannotResume /\ disk' = disk)
      ]_vars

\* C27 witness: the check made right after one that deleted a stale
\* instance finds no instance and answers by rule 1.
C27_Witness ==
    /\ op.name = "canResume"
    /\ op.rule = 1
    /\ op.afterRule = 4
    /\ ~Exists(disk)
    /\ ret = CannotResume

\* C28: a guard call that finds the instance resumable leaves the document
\* unchanged, and a second call made at once (no other call and no time in
\* between) gives the same canResume and resumePhase.
C28_GuardIdempotent ==
    [][(op'.name = "canResume" /\ ~Elapse) =>
          /\ ret'.canResume => disk' = disk
          /\ (op.name = "canResume" /\ op.at = now /\ ret.canResume) =>
                /\ ret'.canResume
                /\ ret'.resumePhase = ret.resumePhase
                /\ disk' = disk
      ]_vars

\* C28 witness: two calls in a row at the same time on an inactive
\* instance in execution, both answered by rule 5.
C28_Witness ==
    /\ op.name = "canResume"
    /\ op.rule = 5
    /\ op.afterRule = 5
    /\ op.afterAt = op.at
    /\ ret.canResume
    /\ ret.resumePhase = "execution"
    /\ Readable(disk)
    /\ ~disk.state.active


\* C29: addLearning / addIssue store a text of at most MAX_ENTRY_LENGTH
\* characters unchanged, and a longer one as its first MAX_ENTRY_LENGTH - 3
\* characters followed by '...', MAX_ENTRY_LENGTH characters in all; no
\* stored entry is longer than MAX_ENTRY_LENGTH.
C29_EntryTruncation ==
    Readable(disk) =>
        /\ \A i \in DOMAIN disk.state.learnings :
              StrLen(disk.state.learnings[i]) <= MAX_ENTRY_LENGTH
        /\ \A i \in DOMAIN disk.state.issues :
              StrLen(disk.state.issues[i]) <= MAX_ENTRY_LENGTH
        /\ op.name \in {"addLearning", "addIssue"} =>
              LET log == IF op.name = "addLearning" THEN disk.state.learnings
                         ELSE disk.state.issues
                  entry == log[Len(log)]
              IN  /\ ret = RetBool(TRUE)
                  /\ StrLen(op.text) <= MAX_ENTRY_LENGTH => entry = op.text
                  /\ StrLen(op.text) > MAX_ENTRY_LENGTH =>
                        /\ StrLen(entry) = MAX_ENTRY_LENGTH
                        /\ StrTake(entry, MAX_ENTRY_LENGTH - 3)
                              = StrTake(op.text, MAX_ENTRY_LENGTH - 3)
                        /\ entry = StrCat(StrTake(entry, MAX_ENTRY_LENGTH - 3),
                                          Ellipsis)

\* C29 witness: an issue of MAX_ENTRY_LENGTH + 3 characters was added and
\* is stored with MAX_ENTRY_LENGTH characters.
C29_Witness ==
    /\ op.name = "addIssue"
    /\ StrLen(op.text) = MAX_ENTRY_LENGTH + 3
    /\ Readable(disk)
    /\ StrLen(disk.state.issues[Len(disk.state.issues)]) = MAX_ENTRY_LENGTH
    /\ disk.state.issues[Len(disk.state.issues)] # op.text

\* C29 witness: a learning of exactly MAX_ENTRY_LENGTH characters was added
\* and is stored as it is.
C29_WitnessExact ==
    /\ op.name = "addLearning"
    /\ StrLen(op.text) = MAX_ENTRY_LENGTH
    /\ Readable(disk)
    /\ disk.state.learnings[Len(disk.state.learnings)] = op.text

\* The log holds the last min(n, max) of the n entries added, truncated, in
\* the order in which they were added.
HoldsLast(log, n, max) ==
    LET m == IF n < max THEN n ELSE max
    IN  /\ Len(log) = m
        /\ \A i \in 1..m : log[i] = truncateEntry(NoteText(n - m + i))

\* C30: after n successful addLearning calls learnings holds exactly the
\* last min(n, MAX_LEARNINGS) entries added, in insertion order; likewise
\* addIssue, issues and MAX_ISSUES.
C30_KeepsMostRecent ==
    Readable(disk) =>
        /\ HoldsLast(disk.state.learnings, Added(op, "learnings"), MAX_LEARNINGS)
        /\ HoldsLast(disk.state.issues, Added(op, "issues"), MAX_ISSUES)

\* C30 witness: MAX_LEARNINGS + 2 learnings were added; the log holds
\* MAX_LEARNINGS of them, from the third to the last.
C30_Witness ==
    /\ op.name = "addLearning"
    /\ op.learnings = MAX_LEARNINGS + 2
    /\ Readable(disk)
    /\ Len(disk.state.learnings) = MAX_LEARNINGS
    /\ disk.state.learnings[1] = truncateEntry(NoteText(3))
    /\ disk.state.learnings[MAX_LEARNINGS] = truncateEntry(NoteText(MAX_LEARNINGS + 2))

\* C31: addLearning and addIssue called when no instance can be read (no
\* state file, or one that is not valid) return false, leave the state file
\* as it was and leave the notes store as it was.
C31_NoInstanceNoEffect ==
    [][(op'.name \in {"addLearning", "addIssue"} /\ ~Readable(disk))
          => /\ ret' = RetBool(FALSE)
             /\ disk' = disk
             /\ notes' = notes]_vars

\* An addLearning in a directory with no state file.
C31_Witness ==
    /\ op.name = "addLearning"
    /\ op.io = "none"
    /\ disk = Absent
    /\ ret = RetBool(FALSE)
    /\ notes = <<>>

C36_ReadIsFullyTyped ==
    (op.name = "read" /\ ret # Null) =>
        /\ ret.state.phase \in RalfreshPhase
        /\ DOMAIN ret.state.phases = RalfreshPhase

\* C35: a stop event on an active instance in a non-terminal phase leaves
\* the state file as it was and returns a blocking decision; a stop event
\* that follows another with no operation on the instance in between
\* returns the same decision, whichever sessionId each of them passes.
C35_DecisionFromStateAlone ==
    [][(/\ op'.name = "stop"
        /\ Readable(disk)
        /\ disk.state.active
        /\ ~IsTerminal(disk.state.phase))
          => /\ disk' = disk
             /\ ret'.kind = "loop"
             /\ ret'.shouldBlock
             /\ ret'.phase = disk.state.phase
             /\ op.name = "stop" => ret' = ret]_vars

\* A stop event of session s2 on the active instance started by session s1.
C35_Witness ==
    /\ op.name = "stop"
    /\ op.sessionId = "s2"
    /\ Readable(disk)
    /\ disk.state.sessionId = "s1"
    /\ disk.state.active
    /\ ret.kind = "loop"
    /\ ret.shouldBlock

C39_NeverResumable ==
    /\ Readable(disk) => (disk.state.active \/ IsTerminal(disk.state.phase))
    /\ op.name = "canResume" => (ret = CannotResume /\ op.rule \in {1, 2, 3})

\* The guard called on an active instance in its second iteration that is
\* older than the staleness threshold.
C39_Witness ==
    /\ op.name = "canResume"
    /\ op.rule = 3
    /\ ret = CannotResume
    /\ Readable(disk)
    /\ disk.state.active
    /\ disk.state.iteration = 2
    /\ now - disk.state.startedAt > STALE_STATE_MAX_AGE_MS

\* C33: as long as every function has written the object it read with no
\* other write in between (the operations ran one after another), every
\* entry whose addLearning or addIssue returned true is in the persisted
\* document.
C33_SequentialKeepsUpdates ==
    (Readable(disk) /\ ~RaceLog.stale) => RaceLog.acked \subseteq Entries(disk)

\* As many entries as the sessions add, added one after another, are all
\* persisted.
C33_Witness ==
    /\ ~RaceLog.stale
    /\ Cardinality(RaceLog.acked) = MaxRaceWrites
    /\ RaceLog.acked = Entries(disk)

\* The lost update: two sessions interleaved their reads and writes, and an
\* entry whose add returned true is missing from the persisted document.
C33_WitnessLostUpdate ==
    /\ Readable(disk)
    /\ RaceLog.stale
    /\ op.name \in {"addLearning", "addIssue", "transition"}
    /\ op.io = "ok"
    /\ \E e \in RaceLog.acked : e \notin Entries(disk)

\* C37: isEventEnabled(config, event) is true exactly when
\* getEnabledPlatforms(config, event) is not empty.
C37_EnabledIffSomePlatform ==
    op.name = "isEventEnabled" => (ret.value <=> ret.platforms # <<>>)

\* C34: when dispatchNotifications has resolved and the send of some
\* channel had succeeded by then, anySuccess is true and the result reported
\* for that channel is its success, whatever the other channels did.
C34_SuccessIsReported ==
    (op.name = "dispatch" /\ ret.kind = "dispatch") =>
        \A p \in DOMAIN op.sends :
            op.sends[p] = "ok" =>
                /\ ret.anySuccess
                /\ \E i \in DOMAIN ret.results :
                      ret.results[i] = [platform |-> p, success |-> TRUE]

===========================================================================
